---- MODULE Spec2Model ----
(***************************************************************************)
(* State-machine model of the market-making engine (mm-bot): the shared    *)
(* RiskLimits object, the KillSwitch, the paper exchange behind the        *)
(* connector, the orphan reaper, the hedger and the per-symbol quoter      *)
(* loop.  Prices, sizes and PnL are integers (sizes in lots, prices in     *)
(* half ticks); time is an integer number of seconds.                      *)
(***************************************************************************)
EXTENDS Integers, Sequences, FiniteSets, TLC

VARIABLES
    risk,       \* RiskLimits._state (RiskState)
    now,        \* wall clock read by utcnow()/monotonic(), in seconds
    lastCall,   \* the RiskLimits operation applied by the last harness step
    ret,        \* what the last check_order returned ("none" for other calls)
    peakSeen,   \* history: largest realized_pnl RiskState ever held
    ks,         \* KillSwitch: _threshold, _count, _reason, holder of _lock
    ksPc,       \* per caller of record_error: "idle" or "in_callback"
    ksCalls,    \* history: record_error calls that got the lock since reset()
    ksFired,    \* history: the callback invocations since reset()
    ksResets,   \* history: number of reset() calls made
    conn,       \* PaperExchange: _orders (insertion order), _fills, _order_id
    st,         \* Quoter._state (SymbolState)
    orphan,     \* OrphanReaper._timestamps
    hedger,     \* Hedger: _last_timestamp, last_notional
    pc,         \* where the quoter task stands in Quoter.start
    running,    \* Quoter._running
    snapshot,   \* the snapshot the current iteration read from the store
    quote,      \* the quote the current iteration generated
    raw_orders, \* _replace_orders: what list_open_orders returned
    iters,      \* history: iterations of the quoting loop begun
    filledSince, \* history: ids the venue filled since _replace_orders listed, before it ended
    _policy,    \* Hedger._policy (HedgePolicy)
    hedgedAt,   \* history: the clock when maybe_hedge last executed a hedge
    fillsApplied, \* history: the fills handed to the fill accounting so far
    bus,        \* EventBus: _subscribers, and the publish calls in progress
    qargs,      \* the arguments of the last generate_quotes call
    poller,     \* ExchangeConnector: _seen_trade_ids, and the trades queued as fills
    vcall,      \* ExchangeConnector._call: the venue call in progress
    feed,       \* KucoinFeed.run: session, backoff, what was published
    peer,       \* the quoter task of the other symbol on the same connector
    twap        \* Hedger.maybe_hedge in progress: the slices left, what was executed

riskVars == <<risk, now, lastCall, ret, peakSeen>>
ioVars == <<poller, vcall, feed, peer, twap>>
ksVars == <<ks, ksPc, ksCalls, ksFired, ksResets>>

quoterVars == <<conn, st, orphan, hedger, pc, running, snapshot, quote, raw_orders,
                iters, filledSince, _policy, hedgedAt, fillsApplied, bus, qargs, ioVars>>

vars == <<risk, now, lastCall, ret, peakSeen, ks, ksPc, ksCalls, ksFired, ksResets,
          conn, st, orphan, hedger, pc, running, snapshot, quote, raw_orders,
          iters, filledSince, _policy, hedgedAt, fillsApplied, bus, qargs,
          poller, vcall, feed, peer, twap>>

\* ------------------------------------------------------------------------
\* Bounds of the model
\* ------------------------------------------------------------------------
MaxTime == 121
MaxCancelEvents == 2
MaxPnl == 4
MaxInv == 2
MaxThreshold == 3
MaxErrors == 5
MaxResets == 2
MaxIters == 2
MaxRecons == 2
MaxBook == 3
MaxHedges == 2
MaxFills == 2
MaxPlaced == 3
MaxSweepTime == 12
MaxSubs == 2
MaxPublishes == 2

\* ------------------------------------------------------------------------
\* Types & primitives (core/types.py)
\* ------------------------------------------------------------------------
Symbols == {"A", "B"}
BUY == "buy"
SELL == "sell"
Side == {BUY, SELL}
None == <<>>

Abs(x) == IF x < 0 THEN -x ELSE x
Max(a, b) == IF a > b THEN a ELSE b
Min(a, b) == IF a < b THEN a ELSE b

RECURSIVE SumOver(_, _)
SumOver(S, f) ==
    IF S = {} THEN 0
    ELSE LET x == CHOOSE y \in S : TRUE IN f[x] + SumOver(S \ {x}, f)

Order(symbol, side, price, size) ==
    [symbol |-> symbol, side |-> side, price |-> price, size |-> size]

\* ------------------------------------------------------------------------
\* Risk limits (risk/limits.py)
\* ------------------------------------------------------------------------
\* Configuration handed to RiskLimits.__init__; an Optional[int] is None or <<n>>
max_drawdown == 2
max_daily_loss == 1
max_inventory_notional == 5
max_open_orders == 3
limits ==
    [s \in Symbols |->
        IF s = "A"
        THEN [max_position |-> 1, max_order_notional |-> 4,
              account_notional_cap |-> 8, max_orders |-> 2,
              max_cancels_per_minute |-> <<2>>]
        ELSE [max_position |-> 2, max_order_notional |-> 4,
              account_notional_cap |-> 8, max_orders |-> 2,
              max_cancels_per_minute |-> None]]

CancelWindow == 60
CancelDequeMaxLen == 1000

RiskInit ==
    [inventory |-> [s \in Symbols |-> 0],
     mid_prices |-> [s \in Symbols |-> 0],
     realized_pnl |-> 0,
     peak_equity |-> 0,
     cancel_events |-> [s \in Symbols |-> <<>>],
     halted_reason |-> None,
     open_orders |-> [s \in Symbols |-> <<>>]]

halted(r) == r.halted_reason # None

_halt_overwrite(r, reason) == [r EXCEPT !.halted_reason = reason]

_halt(r, reason) ==
    IF r.halted_reason = None THEN [r EXCEPT !.halted_reason = reason] ELSE r

TotalNotional(r) ==
    SumOver(Symbols, [s \in Symbols |-> Abs(r.inventory[s] * r.mid_prices[s])])

_evaluate_inventory_notional(r) ==
    LET total_notional == TotalNotional(r) IN
    IF total_notional > max_inventory_notional
    THEN _halt(r, <<"inventory notional", total_notional>>)
    ELSE r

update_mid(r, symbol, mid) ==
    _evaluate_inventory_notional([r EXCEPT !.mid_prices[symbol] = mid])

update_inventory_noeval(r, symbol, quantity) ==
    [r EXCEPT !.inventory[symbol] = quantity]

update_inventory(r, symbol, quantity) ==
    _evaluate_inventory_notional([r EXCEPT !.inventory[symbol] = quantity])

\* variant: only the symbol's own open orders are counted
_can_add_order_per_symbol(r, symbol, notional) ==
    LET open_orders == r.open_orders[symbol]
        exposure == Abs(r.inventory[symbol] * r.mid_prices[symbol])
                    + SumOver(DOMAIN open_orders, open_orders) + notional
    IN  IF Cardinality(DOMAIN open_orders) >= limits[symbol].max_orders THEN FALSE
        ELSE IF exposure > limits[symbol].account_notional_cap THEN FALSE
        ELSE TRUE

_can_add_order(r, symbol, notional) ==
    LET open_orders == r.open_orders[symbol]
        total_open == SumOver(Symbols,
                        [s \in Symbols |-> Cardinality(DOMAIN r.open_orders[s])])
        exposure == Abs(r.inventory[symbol] * r.mid_prices[symbol])
                    + SumOver(DOMAIN open_orders, open_orders) + notional
    IN  IF Cardinality(DOMAIN open_orders) >= limits[symbol].max_orders THEN FALSE
        ELSE IF total_open >= max_open_orders THEN FALSE
        ELSE IF exposure > limits[symbol].account_notional_cap THEN FALSE
        ELSE TRUE

RECURSIVE PruneCancels_ge(_, _)
PruneCancels_ge(cancels, t) ==
    IF cancels # <<>> /\ t - Head(cancels) >= CancelWindow
    THEN PruneCancels_ge(Tail(cancels), t)
    ELSE cancels

\* variant: no cancel ever falls out of the window
PruneCancels_keep(cancels, t) == cancels

RECURSIVE PruneCancels(_, _)
PruneCancels(cancels, t) ==
    IF cancels # <<>> /\ t - Head(cancels) > CancelWindow
    THEN PruneCancels(Tail(cancels), t)
    ELSE cancels

SignedSize(o) == IF o.side = BUY THEN o.size ELSE -o.size

projected_unsigned(r, order) == r.inventory[order.symbol] + order.size

projected(r, order) ==
    r.inventory[order.symbol] + (IF order.side = BUY THEN order.size ELSE -order.size)

\* check_order returns a verdict and may mutate the state (prune, halt)
check_order(r, order, t) ==
    LET lim == limits[order.symbol]
        notional == Abs(order.price * order.size)
        cancels == PruneCancels(r.cancel_events[order.symbol], t)
        pruned == [r EXCEPT !.cancel_events[order.symbol] = cancels]
    IN  IF halted(r) THEN [ok |-> FALSE, risk |-> r]
        ELSE IF Abs(projected(r, order)) > lim.max_position THEN [ok |-> FALSE, risk |-> r]
        ELSE IF notional > lim.max_order_notional THEN [ok |-> FALSE, risk |-> r]
        ELSE IF ~_can_add_order(r, order.symbol, notional) THEN [ok |-> FALSE, risk |-> r]
        ELSE IF lim.max_cancels_per_minute # None
        THEN IF Len(cancels) >= lim.max_cancels_per_minute[1]
             THEN [ok |-> FALSE,
                   risk |-> _halt(pruned, <<"cancel rate limit reached", order.symbol>>)]
             ELSE [ok |-> TRUE, risk |-> pruned]
        ELSE [ok |-> TRUE, risk |-> r]

record_cancel(r, symbol, t) ==
    LET events == Append(r.cancel_events[symbol], t)
        kept == IF Len(events) > CancelDequeMaxLen THEN Tail(events) ELSE events
    IN  [r EXCEPT !.cancel_events[symbol] = kept]

record_fill_no_peak(r, fill, mid_price, pnl_delta) ==
    IF halted(r) THEN r
    ELSE
    LET delta == IF fill.side = BUY THEN fill.size ELSE -fill.size
        pnl == r.realized_pnl + pnl_delta
        peak == r.peak_equity
        r1 == [r EXCEPT !.inventory[fill.symbol] = @ + delta,
                        !.mid_prices[fill.symbol] = mid_price,
                        !.realized_pnl = pnl,
                        !.peak_equity = peak]
        drawdown == peak - pnl
        r2 == IF drawdown > max_drawdown
              THEN _halt(r1, <<"drawdown", drawdown>>) ELSE r1
        r3 == IF -pnl > max_daily_loss
              THEN _halt(r2, <<"daily loss", pnl>>) ELSE r2
    IN  _evaluate_inventory_notional(r3)

record_fill(r, fill, mid_price, pnl_delta) ==
    IF halted(r) THEN r
    ELSE
    LET delta == IF fill.side = BUY THEN fill.size ELSE -fill.size
        pnl == r.realized_pnl + pnl_delta
        peak == IF pnl > r.peak_equity THEN pnl ELSE r.peak_equity
        r1 == [r EXCEPT !.inventory[fill.symbol] = @ + delta,
                        !.mid_prices[fill.symbol] = mid_price,
                        !.realized_pnl = pnl,
                        !.peak_equity = peak]
        drawdown == peak - pnl
        r2 == IF drawdown > max_drawdown
              THEN _halt(r1, <<"drawdown", drawdown>>) ELSE r1
        r3 == IF -pnl > max_daily_loss
              THEN _halt(r2, <<"daily loss", pnl>>) ELSE r2
    IN  _evaluate_inventory_notional(r3)

register_order(r, order_id, order) ==
    LET notional == Abs(order.price * order.size)
        old == r.open_orders[order.symbol]
    IN  [r EXCEPT !.open_orders[order.symbol] =
            [i \in (DOMAIN old) \cup {order_id} |->
                IF i = order_id THEN notional ELSE old[i]]]

remove_order(r, order_id, symbol) ==
    LET old == r.open_orders[symbol]
    IN  [r EXCEPT !.open_orders[symbol] =
            [i \in (DOMAIN old) \ {order_id} |-> old[i]]]

sync_orders(r, symbol, orders) ==
    [r EXCEPT !.open_orders[symbol] = orders]

\* ------------------------------------------------------------------------
\* Kill switch (risk/kill_switch.py)
\* ------------------------------------------------------------------------
NoHolder == "free"

KillSwitchInit(threshold) ==
    [threshold |-> threshold, count |-> 0, reason |-> None, lock |-> NoHolder]

tripped(k) == k.reason # None

\* record_error up to its await of the callback: the latch test, the count and,
\* at the threshold, the latch.  fire tells whether the callback is now awaited
\* (with the lock still held by caller c).
record_error_nolatch(k, c, reason) ==
    LET count == k.count + 1 IN
    IF count >= k.threshold
    THEN [ks |-> [k EXCEPT !.count = count, !.reason = <<reason>>, !.lock = c],
          fire |-> TRUE]
    ELSE [ks |-> [k EXCEPT !.count = count], fire |-> FALSE]

\* variant: a call made after the trip replaces the latched reason
record_error_overwrite(k, c, reason) ==
    IF k.reason # None THEN [ks |-> [k EXCEPT !.reason = <<reason>>], fire |-> FALSE]
    ELSE LET count == k.count + 1 IN
         IF count >= k.threshold
         THEN [ks |-> [k EXCEPT !.count = count, !.reason = <<reason>>, !.lock = c],
               fire |-> TRUE]
         ELSE [ks |-> [k EXCEPT !.count = count], fire |-> FALSE]

record_error(k, c, reason) ==
    IF k.reason # None THEN [ks |-> k, fire |-> FALSE]
    ELSE LET count == k.count + 1 IN
         IF count >= k.threshold
         THEN [ks |-> [k EXCEPT !.count = count, !.reason = <<reason>>, !.lock = c],
               fire |-> TRUE]
         ELSE [ks |-> [k EXCEPT !.count = count], fire |-> FALSE]

\* record_error after the callback returned: clear the count, release the lock
record_error_finish(k) == [k EXCEPT !.count = 0, !.lock = NoHolder]

\* variant: reset() clears the latch and keeps the count
reset_latch_only(k) == [k EXCEPT !.reason = None]

reset(k) == [k EXCEPT !.count = 0, !.reason = None]

\* ------------------------------------------------------------------------
\* Paper exchange behind the connector (connectors/cex_ccxt.py)
\* ------------------------------------------------------------------------
\* Order ids "paper-N" are the integers N.  _orders is a dict: its values are
\* listed in insertion order, so it is a sequence of OrderState records.
\* fee_rate is an argument of the connector's constructor: this venue charges none
fee_rate == 0

OrderState(order_id, order, remaining) ==
    [order_id |-> order_id, symbol |-> order.symbol, side |-> order.side,
     price |-> order.price, size |-> order.size, remaining |-> remaining]

Fill(order_id, symbol, side, price, size, fee) ==
    [order_id |-> order_id, symbol |-> symbol, side |-> side,
     price |-> price, size |-> size, fee |-> fee]

\* ExchangeConnector: paper tells whether a PaperExchange stands behind it;
\* otherwise orders rest on the live venue until the venue fills them
ConnInit(paper) == [paper |-> paper, orders |-> <<>>, fills |-> <<>>, next_id |-> 1]

RECURSIVE SelectOrders(_, _)
SelectOrders(orders, keep) ==
    IF orders = <<>> THEN <<>>
    ELSE IF keep[Head(orders).order_id]
         THEN <<Head(orders)>> \o SelectOrders(Tail(orders), keep)
         ELSE SelectOrders(Tail(orders), keep)

OrderIds(orders) == {orders[i].order_id : i \in DOMAIN orders}

place_order(c, order) ==
    [conn |-> [c EXCEPT !.orders = Append(@, OrderState(c.next_id, order, order.size)),
                        !.next_id = @ + 1],
     order_id |-> c.next_id]

cancel_order(c, order_id) ==
    [c EXCEPT !.orders =
        SelectOrders(@, [i \in OrderIds(@) |-> i # order_id])]

RECURSIVE list_orders(_, _)
list_orders(orders, symbol) ==
    IF orders = <<>> THEN <<>>
    ELSE IF Head(orders).symbol = symbol
         THEN <<Head(orders)>> \o list_orders(Tail(orders), symbol)
         ELSE list_orders(Tail(orders), symbol)

\* whether process_cross fills the order against the market bid and ask
Crosses(o, bid, ask) ==
    \/ o.side = BUY /\ o.price >= ask
    \/ o.side = SELL /\ o.price <= bid

\* variant: a crossing order fills at its own limit price
CrossPrice_limit(o, bid, ask) == o.price

CrossPrice(o, bid, ask) ==
    IF o.side = BUY THEN Min(o.price, ask) ELSE Max(o.price, bid)

\* _register_fill for the whole remaining size: the order leaves _orders and
\* its fill joins the queue
_register_fill(c, o, price, size) ==
    LET left == Max(o.remaining - size, 0)
        orders == IF left = 0
                  THEN SelectOrders(c.orders,
                           [i \in OrderIds(c.orders) |-> i # o.order_id])
                  ELSE [i \in DOMAIN c.orders |->
                           IF c.orders[i].order_id = o.order_id
                           THEN [c.orders[i] EXCEPT !.remaining = left]
                           ELSE c.orders[i]]
        fee == Abs(price * size) * fee_rate
    IN  [c EXCEPT !.orders = orders,
                  !.fills = Append(@, Fill(o.order_id, o.symbol, o.side, price, size, fee))]

RECURSIVE CrossEach(_, _, _, _, _)
CrossEach(c, todo, symbol, bid, ask) ==
    IF todo = <<>> THEN c
    ELSE LET o == Head(todo) IN
         IF o.symbol = symbol /\ o.remaining > 0 /\ Crosses(o, bid, ask)
         THEN CrossEach(_register_fill(c, o, CrossPrice(o, bid, ask), o.remaining),
                        Tail(todo), symbol, bid, ask)
         ELSE CrossEach(c, Tail(todo), symbol, bid, ask)

\* paper only; a no-op on a live venue
process_cross(c, symbol, bid, ask) ==
    IF c.paper THEN CrossEach(c, c.orders, symbol, bid, ask) ELSE c

\* ------------------------------------------------------------------------
\* Orphan reaper (risk/orphan_reaper.py)
\* ------------------------------------------------------------------------
timeout_seconds == 10

track(ts, order_id, t) ==
    [i \in (DOMAIN ts) \cup {order_id} |-> IF i = order_id THEN t ELSE ts[i]]

Stale(ts, t) == {i \in DOMAIN ts : t - ts[i] > timeout_seconds}

RECURSIVE CancelEach(_, _)
CancelEach(c, ids) ==
    IF ids = {} THEN c
    ELSE LET i == CHOOSE j \in ids : TRUE
         IN  CancelEach(cancel_order(c, i), ids \ {i})

\* sweep cancels every stale id on the venue and forgets it
sweep(c, ts, t) ==
    [conn |-> CancelEach(c, Stale(ts, t)),
     orphan |-> [i \in (DOMAIN ts) \ Stale(ts, t) |-> ts[i]]]

\* ------------------------------------------------------------------------
\* Hedger and TWAP executor (hedge/hedger.py, exec/twap.py)
\* ------------------------------------------------------------------------
\* Sizes the hedger computes are fractions num/den of a lot-denominated size;
\* round() is Python's round-half-to-even.
twap_slices == 3

\* time.monotonic() runs on its own origin: the uptime when the clock read 0
Uptime == 100
\* variant: the clock is read in milliseconds
monotonic_ms(t) == 1000 * t + Uptime

monotonic(t) == t + Uptime

HedgerInit == [last_timestamp |-> 0, last_notional |-> 0]

RoundHalfEven(n, d) ==
    LET q == n \div d
        r == n % d
    IN  IF 2 * r < d THEN q
        ELSE IF 2 * r > d THEN q + 1
        ELSE IF q % 2 = 0 THEN q ELSE q + 1

RECURSIVE FillsOf(_, _)
FillsOf(fills, order_id) ==
    IF fills = <<>> THEN <<>>
    ELSE IF Head(fills).order_id = order_id
         THEN <<Head(fills)>> \o FillsOf(Tail(fills), order_id)
         ELSE FillsOf(Tail(fills), order_id)

RECURSIVE SumDelta(_)
SumDelta(fills) ==
    IF fills = <<>> THEN 0
    ELSE (IF Head(fills).side = BUY THEN Head(fills).size ELSE -Head(fills).size)
         + SumDelta(Tail(fills))

RECURSIVE SumNotional(_)
SumNotional(fills) ==
    IF fills = <<>> THEN 0
    ELSE Abs(Head(fills).price * Head(fills).size) + SumNotional(Tail(fills))

\* submit(size) with size = num/den: one order of the snapped size, crossed
\* against the snapshot at once; the queue is then read until empty and only
\* the fills of this order are counted
submit(acc, symbol, side, price, bid, ask, num, den, lot_size) ==
    LET snapped_size == Max(RoundHalfEven(num, den * lot_size) * lot_size, lot_size)
        placed == place_order(acc.conn, Order(symbol, side, price, snapped_size))
        crossed == process_cross(placed.conn, symbol, bid, ask)
        mine == FillsOf(crossed.fills, placed.order_id)
    IN  [conn |-> [crossed EXCEPT !.fills = <<>>],
         executed_delta |-> acc.executed_delta + SumDelta(mine),
         last_notional |-> acc.last_notional + SumNotional(mine)]

RECURSIVE execute(_, _, _, _, _, _, _, _, _, _)
execute(acc, k, symbol, side, price, bid, ask, num, den, lot_size) ==
    IF k = 0 THEN acc
    ELSE execute(submit(acc, symbol, side, price, bid, ask, num, den, lot_size),
                 k - 1, symbol, side, price, bid, ask, num, den, lot_size)

\* policy: enabled, threshold, max_notional, hedge_ratio (ratio_num/ratio_den),
\* cooldown_seconds
maybe_hedge(h, policy, c, snap, inventory, tick_size, lot_size, t) ==
    LET idle == [hedger |-> [h EXCEPT !.last_notional = 0], conn |-> c,
                 inventory |-> inventory]
        mono == monotonic(t)
        eff_num == inventory * policy.ratio_num
        side == IF eff_num > 0 THEN SELL ELSE BUY
        price == IF side = SELL THEN snap.bid ELSE snap.ask
        unit == Max(price, tick_size)
        capped == Abs(eff_num) * unit > policy.max_notional * policy.ratio_den
        target_num == IF capped THEN policy.max_notional ELSE Abs(eff_num)
        target_den == IF capped THEN unit ELSE policy.ratio_den
        small == target_num < lot_size * target_den
        desired_num == IF small THEN lot_size ELSE target_num
        desired_den == IF small THEN 1 ELSE target_den
        slices == IF 2 * desired_num <= policy.max_notional * desired_den
                  THEN 1 ELSE twap_slices
        start == [conn |-> c, executed_delta |-> 0, last_notional |-> 0]
        done == IF slices > 1
                THEN execute(start, slices, snap.symbol, side, price, snap.bid,
                             snap.ask, desired_num, desired_den * slices, lot_size)
                ELSE submit(start, snap.symbol, side, price, snap.bid, snap.ask,
                            desired_num, desired_den, lot_size)
    IN  IF ~policy.enabled THEN idle
        ELSE IF mono - h.last_timestamp < policy.cooldown_seconds THEN idle
        ELSE IF Abs(inventory) < policy.threshold THEN idle
        ELSE IF Abs(eff_num) < policy.threshold * policy.ratio_den THEN idle
        ELSE [hedger |-> [last_timestamp |-> IF Abs(done.executed_delta) > 0
                                             THEN mono ELSE h.last_timestamp,
                          last_notional |-> done.last_notional],
              conn |-> done.conn,
              inventory |-> inventory + done.executed_delta]

\* maybe_hedge up to the choice of the number of slices: whether it returns
\* at once, and otherwise the side, the price, the desired size (a fraction)
\* and the number of slices
hedge_plan(h, policy, snap, inventory, tick, lot, t) ==
    LET eff_num == inventory * policy.ratio_num
        side == IF eff_num > 0 THEN SELL ELSE BUY
        price == IF side = SELL THEN snap.bid ELSE snap.ask
        unit == Max(price, tick)
        capped == Abs(eff_num) * unit > policy.max_notional * policy.ratio_den
        target_num == IF capped THEN policy.max_notional ELSE Abs(eff_num)
        target_den == IF capped THEN unit ELSE policy.ratio_den
        small == target_num < lot * target_den
        desired_num == IF small THEN lot ELSE target_num
        desired_den == IF small THEN 1 ELSE target_den
        slices == IF 2 * desired_num <= policy.max_notional * desired_den
                  THEN 1 ELSE twap_slices
    IN  [idle |-> \/ ~policy.enabled
                  \/ monotonic(t) - h.last_timestamp < policy.cooldown_seconds
                  \/ Abs(inventory) < policy.threshold
                  \/ Abs(eff_num) < policy.threshold * policy.ratio_den,
         symbol |-> snap.symbol, side |-> side, price |-> price,
         bid |-> snap.bid, ask |-> snap.ask,
         num |-> desired_num, den |-> desired_den * slices, lot |-> lot,
         slices |-> slices, inventory |-> inventory, mono |-> monotonic(t)]

\* no maybe_hedge in progress
TwapIdle == [left |-> 0, plan |-> None, acc |-> None]

\* the slices begin: nothing is executed yet
twap_begin(c, plan) ==
    [left |-> plan.slices, plan |-> <<plan>>,
     acc |-> <<[conn |-> c, executed_delta |-> 0, last_notional |-> 0]>>]

\* one turn of the loop of TWAPExecutor.execute, or the one submit
twap_slice(tw, c) ==
    LET plan == tw.plan[1]
        acc == [tw.acc[1] EXCEPT !.conn = c]
    IN  [tw EXCEPT !.left = @ - 1,
                   !.acc = <<submit(acc, plan.symbol, plan.side, plan.price, plan.bid,
                                    plan.ask, plan.num, plan.den, plan.lot)>>]

\* ------------------------------------------------------------------------
\* Quoter (mm/quoter.py)
\* ------------------------------------------------------------------------
\* Configuration of the quoter of symbol "A": prices are in half ticks
QSymbol == "A"
lot_size == 1
tick_size == 2
maker_fee == 0
taker_fee == 0
kill_switch_threshold == 2
HedgePolicy ==
    [enabled |-> TRUE, threshold |-> 1, max_notional |-> 12,
     ratio_num |-> 1, ratio_den |-> 1, cooldown_seconds |-> 30]

SymbolStateInit ==
    [inventory |-> 0, inventory_cost |-> 0, pnl_realized |-> 0,
     open_orders |-> <<>>]

Snapshot(symbol, bid, ask) == [symbol |-> symbol, bid |-> bid, ask |-> ask]
Mid(snap) == (snap.bid + snap.ask) \div 2
QuoteResult(bid, ask) == [bid |-> bid, ask |-> ask]

\* a / b for b # 0, exact whenever b divides a
Quot(a, b) == IF b < 0 THEN (-a) \div (-b) ELSE a \div b

\* variant: the whole cost basis stands for the average cost of the lots closed
_apply_fill_total_cost(s, fill) ==
    LET inventory_before == s.inventory
        cost_before == s.inventory_cost
        buy == fill.side = BUY
        inventory_after == IF buy THEN inventory_before + fill.size
                           ELSE inventory_before - fill.size
        closes == IF buy THEN inventory_before < 0 ELSE inventory_before > 0
        closing == Min(fill.size, Abs(inventory_before))
        realized ==
            IF ~closes THEN 0
            ELSE IF buy
                 THEN cost_before * closing - fill.price * closing
                 ELSE fill.price * closing - cost_before * closing
        residual == fill.size - closing
        cost ==
            IF ~closes
            THEN (IF buy THEN cost_before + fill.price * fill.size
                  ELSE cost_before - fill.price * fill.size)
            ELSE IF (buy /\ inventory_after < 0) \/ (~buy /\ inventory_after > 0)
                 THEN Quot(cost_before * inventory_after, inventory_before)
                 ELSE (IF buy THEN residual * fill.price ELSE -residual * fill.price)
    IN  [state |-> [s EXCEPT !.inventory = inventory_after,
                             !.inventory_cost = IF inventory_after = 0 THEN 0 ELSE cost],
         realized |-> realized]

\* _apply_fill: the new inventory and cost basis, and the realised PnL
_apply_fill(s, fill) ==
    LET inventory_before == s.inventory
        cost_before == s.inventory_cost
        buy == fill.side = BUY
        inventory_after == IF buy THEN inventory_before + fill.size
                           ELSE inventory_before - fill.size
        closes == IF buy THEN inventory_before < 0 ELSE inventory_before > 0
        closing == Min(fill.size, Abs(inventory_before))
        realized ==
            IF ~closes THEN 0
            ELSE IF buy
                 THEN Quot(cost_before * closing, inventory_before) - fill.price * closing
                 ELSE fill.price * closing - Quot(cost_before * closing, inventory_before)
        residual == fill.size - closing
        cost ==
            IF ~closes
            THEN (IF buy THEN cost_before + fill.price * fill.size
                  ELSE cost_before - fill.price * fill.size)
            ELSE IF (buy /\ inventory_after < 0) \/ (~buy /\ inventory_after > 0)
                 THEN Quot(cost_before * inventory_after, inventory_before)
                 ELSE (IF buy THEN residual * fill.price ELSE -residual * fill.price)
    IN  [state |-> [s EXCEPT !.inventory = inventory_after,
                             !.inventory_cost = IF inventory_after = 0 THEN 0 ELSE cost],
         realized |-> realized]

Without(f, k) == [i \in (DOMAIN f) \ {k} |-> f[i]]
With(f, k, v) == [i \in (DOMAIN f) \cup {k} |-> IF i = k THEN v ELSE f[i]]

\* the state the quoter's venue-facing steps work on
World(c, r, s, o) == [conn |-> c, risk |-> r, st |-> s, orphan |-> o]

\* the body of _drain_fills for one polled fill, up to the storage write
DrainApply(w, snap) ==
    LET fill == Head(w.conn.fills)
        applied == _apply_fill(w.st, fill)
        rate == IF fill.order_id \in DOMAIN w.st.open_orders
                THEN maker_fee ELSE taker_fee
        fee == IF fill.fee # 0 THEN Abs(fill.fee)
               ELSE Max(rate, 0) * Abs(fill.price * fill.size)
        realized == applied.realized - fee
    IN  [w EXCEPT !.conn.fills = Tail(@),
                  !.st = [applied.state EXCEPT !.pnl_realized = @ + realized],
                  !.risk = record_fill(@, fill, Mid(snap), realized)]

\* ... and what follows the storage write: the order leaves risk and the map
DrainRemove(w, fill) ==
    [w EXCEPT !.risk = remove_order(@, fill.order_id, fill.symbol),
              !.st.open_orders = Without(@, fill.order_id)]

\* n turns of the loop in _drain_fills
RECURSIVE DrainLoop(_, _, _)
DrainLoop(w, snap, n) ==
    IF n = 0 THEN w
    ELSE DrainLoop(DrainRemove(DrainApply(w, snap), Head(w.conn.fills)), snap, n - 1)

\* orders_by_side: the last listed order of each side wins
RECURSIVE LastOfSide(_, _)
LastOfSide(raw, side) ==
    IF raw = <<>> THEN <<>>
    ELSE IF raw[Len(raw)].side = side THEN <<raw[Len(raw)]>>
         ELSE LastOfSide(SubSeq(raw, 1, Len(raw) - 1), side)

ByOrderId(raw) ==
    [i \in OrderIds(raw) |-> CHOOSE o \in {raw[k] : k \in DOMAIN raw} : o.order_id = i]

\* variant: an order exactly half a tick away is replaced
WithinHalfTick_strict(price, target) == 2 * Abs(price - target) < tick_size

WithinHalfTick(price, target) == 2 * Abs(price - target) <= tick_size

\* one pass of the loop over desired_prices in _replace_orders
ReplaceSide(w, side, target_price, existing, t) ==
    IF existing # <<>> /\ WithinHalfTick(existing[1].price, target_price) THEN w
    ELSE
    LET w1 == IF existing # <<>>
              THEN [w EXCEPT
                      !.conn = cancel_order(@, existing[1].order_id),
                      !.risk = remove_order(record_cancel(@, QSymbol, t),
                                            existing[1].order_id, QSymbol),
                      !.st.open_orders = Without(@, existing[1].order_id)]
              ELSE w
        order == Order(QSymbol, side, target_price, lot_size)
        verdict == check_order(w1.risk, order, t)
        placed == place_order(w1.conn, order)
    IN  IF ~verdict.ok THEN [w1 EXCEPT !.risk = verdict.risk]
        ELSE [w1 EXCEPT
                !.conn = placed.conn,
                !.orphan = track(@, placed.order_id, t),
                !.st.open_orders =
                    With(@, placed.order_id, OrderState(placed.order_id, order, order.size)),
                !.risk = register_order(verdict.risk, placed.order_id, order)]

\* variant: the listing is merged into the map and into risk, nothing is dropped
SyncListed_merge(w, raw) ==
    LET current_orders == ByOrderId(raw)
        risk_orders == [i \in DOMAIN current_orders |->
                           Abs(current_orders[i].price * current_orders[i].remaining)]
    IN  [w EXCEPT !.st.open_orders = current_orders @@ @,
                  !.risk = sync_orders(@, QSymbol, risk_orders @@ @.open_orders[QSymbol])]

\* _replace_orders up to the loop: adopt the venue's listing in the map and in risk
SyncListed(w, raw) ==
    LET current_orders == ByOrderId(raw)
        risk_orders == [i \in DOMAIN current_orders |->
                           Abs(current_orders[i].price * current_orders[i].remaining)]
    IN  [w EXCEPT !.st.open_orders = current_orders,
                  !.risk = sync_orders(@, QSymbol, risk_orders)]

\* the loop of _replace_orders: BUY, then SELL, each against the listing
ReplaceSides(w, raw, q, t) ==
    ReplaceSide(ReplaceSide(w, BUY, q.bid, LastOfSide(raw, BUY), t),
                SELL, q.ask, LastOfSide(raw, SELL), t)

_replace_orders(w, q, t) ==
    LET raw == list_orders(w.conn.orders, QSymbol)
    IN  ReplaceSides(SyncListed(w, raw), raw, q, t)

RECURSIVE CancelListed(_, _)
CancelListed(w, listed) ==
    IF listed = <<>> THEN w
    ELSE CancelListed(
            [w EXCEPT !.conn = cancel_order(@, Head(listed).order_id),
                      !.risk = remove_order(@, Head(listed).order_id, Head(listed).symbol)],
            Tail(listed))

\* variant: the map is cleared but nothing is cancelled on the venue
_cancel_all_local(w) == [w EXCEPT !.st.open_orders = <<>>]

_cancel_all(w) ==
    [CancelListed(w, list_orders(w.conn.orders, QSymbol)) EXCEPT !.st.open_orders = <<>>]

\* ------------------------------------------------------------------------
\* Quoting model (models/avellaneda_stoikov.py, core/utils.py)
\*
\* The model's arithmetic is over fractions: a number is a pair <<n, d>> in
\* lowest terms with d > 0.  (1 / kappa) * log(1 + kappa / gamma) takes every
\* value strictly between 0 and 1 / gamma as kappa ranges over the positive
\* numbers; the model object carries that value as log_term in place of
\* kappa.
\* ------------------------------------------------------------------------
RECURSIVE Gcd(_, _)
Gcd(a, b) == IF b = 0 THEN a ELSE Gcd(b, a % b)

Frac(n, d) ==
    LET g == Gcd(Abs(n), Abs(d))
        s == IF d < 0 THEN -1 ELSE 1
    IN  <<(s * n) \div g, (s * d) \div g>>

FInt(n) == <<n, 1>>
Lcm(a, b) == (a \div Gcd(a, b)) * b
FAdd(a, b) ==
    LET l == Lcm(a[2], b[2])
    IN  Frac(a[1] * (l \div a[2]) + b[1] * (l \div b[2]), l)
FNeg(a) == <<-a[1], a[2]>>
FSub(a, b) == FAdd(a, FNeg(b))
FMul(a, b) == Frac(a[1] * b[1], a[2] * b[2])
FHalf(a) == Frac(a[1], 2 * a[2])
FLess(a, b) == FSub(b, a)[1] > 0
FLeq(a, b) == FSub(b, a)[1] >= 0
FMax(a, b) == IF FLess(a, b) THEN b ELSE a
FMin(a, b) == IF FLess(b, a) THEN b ELSE a
FAbs(a) == <<Abs(a[1]), a[2]>>

\* snap(value, step) = round(value / step) * step, round() to the even
\* neighbour on a tie
snap_to(value, step) ==
    FMul(FInt(RoundHalfEven(value[1] * step[2], value[2] * step[1])), step)

clamp(value, minimum, maximum) == FMax(minimum, FMin(maximum, value))

AvellanedaStoikovModel(gamma, horizon, log_term, min_spread, skew_alpha) ==
    [gamma |-> gamma, horizon |-> horizon, log_term |-> log_term,
     min_spread |-> min_spread, skew_alpha |-> skew_alpha]

MicrostructureFeature(microprice, queue_imbalance, order_flow_imbalance) ==
    [microprice |-> microprice, queue_imbalance |-> queue_imbalance,
     order_flow_imbalance |-> order_flow_imbalance]

_reservation_price(m, mid, inventory, sigma) ==
    FSub(mid, FMul(FMul(FMul(FInt(inventory), m.gamma), FMul(sigma, sigma)), m.horizon))

_optimal_half_spread(m, sigma) ==
    FAdd(FHalf(FMul(FMul(m.gamma, FMul(sigma, sigma)), m.horizon)), m.log_term)

generate_quotes(m, snapshot_mid, inventory, sigma, feature, tick, min_tick_spread, impact_lambda) ==
    LET effective_mid == FAdd(FMul(<<3, 5>>, feature.microprice),
                              FMul(<<2, 5>>, snapshot_mid))
        reservation == _reservation_price(m, effective_mid, inventory, sigma)
        half_spread0 == FMax(_optimal_half_spread(m, sigma), FHalf(m.min_spread))
        skew == FSub(FAdd(FMul(m.skew_alpha, FInt(inventory)),
                          FMul(<<2, 5>>, feature.order_flow_imbalance)),
                     FMul(<<1, 5>>, feature.queue_imbalance))
        impact_multiplier ==
            FAdd(FAdd(FInt(1),
                      IF FLess(<<1, 100>>, FAbs(impact_lambda))
                      THEN clamp(FAbs(impact_lambda), FInt(0), <<3, 2>>)
                      ELSE FInt(0)),
                 IF FLess(<<1, 20>>, sigma)
                 THEN clamp(sigma, FInt(0), FInt(1))
                 ELSE FInt(0))
        half_spread == FMul(half_spread0, impact_multiplier)
        bid0 == FSub(FSub(reservation, half_spread), skew)
        ask0 == FAdd(FAdd(reservation, half_spread), skew)
        spread == FMax(FSub(ask0, bid0), min_tick_spread)
        mid == FHalf(FAdd(bid0, ask0))
        bid == snap_to(FSub(mid, FHalf(spread)), tick)
        ask == snap_to(FAdd(mid, FHalf(spread)), tick)
    IN  [bid |-> bid, ask |-> ask,
         spread |-> FMax(FSub(ask, bid), min_tick_spread)]

\* ------------------------------------------------------------------------
\* Fill poller of the live connector (connectors/cex_ccxt.py, _poll_fills)
\*
\* A venue trade is its id.  _seen_trade_ids is reset to the id at hand when
\* it holds more than 5000 ids; the model resets it above MaxSeen ids.
\* enqueued is the history of the trade ids put in the fill queue.
\* ------------------------------------------------------------------------
MaxSeen == 3

PollerInit == [seen_trade_ids |-> {}, enqueued |-> <<>>, fetches |-> 0]

\* the body of `for trade in trades`
poll_trade(p, trade_id) ==
    IF trade_id \in p.seen_trade_ids THEN p
    ELSE LET seen == p.seen_trade_ids \cup {trade_id}
         IN  [p EXCEPT
                !.seen_trade_ids = IF Cardinality(seen) > MaxSeen THEN {trade_id} ELSE seen,
                !.enqueued = Append(@, trade_id)]

RECURSIVE poll_trades(_, _)
poll_trades(p, trades) ==
    IF trades = <<>> THEN p
    ELSE poll_trades(poll_trade(p, Head(trades)), Tail(trades))

\* ------------------------------------------------------------------------
\* Venue calls of the live connector (connectors/cex_ccxt.py, _call)
\* ------------------------------------------------------------------------
\* _call wraps the venue function in tenacity's AsyncRetrying:
\* stop_after_attempt(5), retry_if_exception_type((NetworkError,
\* RateLimitExceeded)), reraise=True.  Where tenacity is not installed the
\* module defines its own AsyncRetrying, which yields a single attempt.  An
\* attempt's outcome is "ok" or the class of the exception the venue function
\* raised; outcomes is the history of the attempts of the call in progress,
\* calls counts the calls begun.
stop_after_attempt == 5
Retried == {"NetworkError", "RateLimitExceeded"}
Outcomes == {"ok", "NetworkError", "RateLimitExceeded", "ExchangeError"}

CallInit(tenacity) ==
    [tenacity |-> tenacity, pc |-> "idle", attempts |-> 0, outcomes |-> <<>>,
     result |-> None, calls |-> 0]

CallIdle == CallInit(TRUE)

call_begin(c) ==
    [c EXCEPT !.pc = "attempt", !.attempts = 0, !.outcomes = <<>>, !.result = None,
              !.calls = @ + 1]

\* variant: every exception is retried
attempt_retry_all(c, outcome) ==
    LET n == c.attempts + 1
        c1 == [c EXCEPT !.attempts = n, !.outcomes = Append(@, outcome)]
    IN  IF outcome = "ok" THEN [c1 EXCEPT !.pc = "returned", !.result = <<"ok">>]
        ELSE IF n >= stop_after_attempt
        THEN [c1 EXCEPT !.pc = "raised", !.result = <<outcome>>]
        ELSE c1

\* one attempt: the venue function returns or raises; the retry predicate, the
\* stop condition and reraise decide what follows
attempt(c, outcome) ==
    LET n == c.attempts + 1
        c1 == [c EXCEPT !.attempts = n, !.outcomes = Append(@, outcome)]
    IN  IF outcome = "ok" THEN [c1 EXCEPT !.pc = "returned", !.result = <<"ok">>]
        ELSE IF ~c.tenacity \/ outcome \notin Retried
        THEN [c1 EXCEPT !.pc = "raised", !.result = <<outcome>>]
        ELSE IF n >= stop_after_attempt
        THEN [c1 EXCEPT !.pc = "raised", !.result = <<outcome>>]
        ELSE c1

\* ------------------------------------------------------------------------
\* Live feed (data/feeds.py, KucoinFeed)
\* ------------------------------------------------------------------------
\* run(): pc is "idle" before the call, "connect" at the loop test and
\* within _stream up to the subscription, "session" in the receive loop,
\* "backoff" in the handler's sleep, "done" after the loop.  Delays are in
\* seconds.  slept is the history of the delays slept, published that of the
\* events handed to the bus, last the payload received last.
FeedInit == [pc |-> "idle", running |-> FALSE, backoff |-> 1, slept |-> <<>>,
             published |-> <<>>, last |-> None, received |-> 0]

max_backoff == 30

\* variant: the delay is doubled without a cap
next_backoff_uncapped(backoff) == backoff * 2

next_backoff(backoff) == Min(backoff * 2, max_backoff)

feed_run(f) == [f EXCEPT !.running = TRUE, !.backoff = 1, !.pc = "connect"]

\* except Exception: in run(); the session, if any, is closed
feed_failure(f) == [f EXCEPT !.pc = "backoff"]

\* await asyncio.sleep(backoff); backoff = min(backoff * 2, 30.0)
feed_slept(f) ==
    [f EXCEPT !.slept = Append(@, f.backoff), !.backoff = next_backoff(@),
              !.pc = "connect"]

\* A raw websocket payload, by what the code looks at: whether it is JSON,
\* whether the JSON value is an object, its "type", and for a "message" its
\* "topic" and the kind of its "data" ("missing": an object without the
\* price fields; "bad_number": a field that float() rejects; "not_object":
\* null or a list).
Payload(json, object, type, topic, data) ==
    [json |-> json, object |-> object, type |-> type, topic |-> topic, data |-> data]

\* _snapshot_from_ticker: a snapshot, None, or an exception out of data.get
_snapshot_from_ticker(data) ==
    IF data = "not_object" THEN "raise"
    ELSE IF data = "bad_number" THEN "none"
    ELSE "snapshot"

\* _trade_from_match: float(None) of a missing price is a TypeError, caught
_trade_from_match(data) ==
    IF data = "not_object" THEN "raise"
    ELSE IF data \in {"bad_number", "missing"} THEN "none"
    ELSE "trade"

_handle_message(message) ==
    IF message.topic = "null" THEN "raise"
    ELSE IF message.topic = "ticker" THEN _snapshot_from_ticker(message.data)
    ELSE IF message.topic = "match" THEN _trade_from_match(message.data)
    ELSE "none"

\* the body of the receive loop in _stream: what is published, or "raise"
stream_message(raw) ==
    IF ~raw.json THEN "raise"
    ELSE IF ~raw.object THEN "raise"
    ELSE IF raw.type \in {"welcome", "ack", "pong", "ping"} THEN "none"
    ELSE IF raw.type = "error" THEN "raise"
    ELSE IF raw.type = "message" THEN _handle_message(raw)
    ELSE "none"

feed_receive(f, raw) ==
    LET res == stream_message(raw)
        f1 == [f EXCEPT !.last = <<raw>>, !.received = @ + 1]
    IN  IF res = "raise" THEN feed_failure(f1)
        ELSE IF res = "none" THEN f1
        ELSE [f1 EXCEPT !.published = Append(@, res)]

\* run_mm.py builds one Quoter per configured symbol, each with a SymbolState
\* of its own, on the connector of its venue: the quoter of the other symbol,
\* its state and (history) the fills its accounting consumed
PeerSymbol == "B"

PeerInit == [st |-> SymbolStateInit, applied |-> <<>>]

IoIdle ==
    /\ poller = PollerInit
    /\ vcall = CallIdle
    /\ feed = FeedInit
    /\ peer = PeerInit
    /\ twap = TwapIdle

\* ------------------------------------------------------------------------
\* Event bus (core/events.py)
\* ------------------------------------------------------------------------
\* _subscribers maps a topic to the list of its handlers; subscribed is the
\* history of how many subscribe calls were made.  A publish call in
\* progress holds the list it copied under the lock (called); gather() runs
\* the handlers' coroutines as tasks, which begin in list order (begun counts
\* them) and are over in any order.  received is the history of the payloads
\* each handler was called with; a payload is <<publisher, number>>.
Topics == {"snapshot", "trade"}
Handlers == {"h1", "h2"}
Publishers == {"feed1", "feed2"}

NoCall(n) ==
    [pc |-> "idle", n |-> n, topic |-> "", called |-> <<>>, begun |-> 0, over |-> {}]

EventBusInit ==
    [subscribers |-> [t \in Topics |-> <<>>],
     calls |-> [p \in Publishers |-> NoCall(0)],
     received |-> [h \in Handlers |-> <<>>],
     subscribed |-> 0]

subscribe(b, topic, handler) ==
    [b EXCEPT !.subscribers[topic] = Append(@, handler),
              !.subscribed = @ + 1]

\* list.remove: the first occurrence goes
RemoveFirst(seq, x) ==
    LET i == CHOOSE k \in DOMAIN seq : seq[k] = x /\ \A j \in 1..(k - 1) : seq[j] # x
    IN  SubSeq(seq, 1, i - 1) \o SubSeq(seq, i + 1, Len(seq))

unsubscribe(b, topic, handler) ==
    IF \E k \in DOMAIN b.subscribers[topic] : b.subscribers[topic][k] = handler
    THEN [b EXCEPT !.subscribers[topic] = RemoveFirst(@, handler)]
    ELSE b

\* publish up to the await of gather(): the subscribers are copied
publish(b, p, topic) ==
    [b EXCEPT !.calls[p] = [pc |-> "gather", n |-> @.n + 1, topic |-> topic,
                            called |-> b.subscribers[topic],
                            begun |-> 0, over |-> {}]]

\* the next handler's coroutine begins: it has the payload
handler_begins(b, p) ==
    LET call == b.calls[p]
        h == call.called[call.begun + 1]
    IN  [b EXCEPT !.calls[p].begun = @ + 1,
                  !.received[h] = Append(@, <<p, call.n>>)]

\* a handler's coroutine is over: it returned or raised, which
\* gather(return_exceptions=True) takes alike
handler_ends(b, p, i) == [b EXCEPT !.calls[p].over = @ \cup {i}]

\* the quoter left out of a specification: constructed, never started
LoopIdle ==
    /\ conn = ConnInit(TRUE)
    /\ st = SymbolStateInit
    /\ orphan = <<>>
    /\ hedger = HedgerInit
    /\ pc = "idle"
    /\ running = FALSE
    /\ snapshot = None
    /\ quote = None
    /\ raw_orders = <<>>
    /\ iters = 0
    /\ filledSince = {}
    /\ _policy = HedgePolicy
    /\ hedgedAt = None
    /\ fillsApplied = <<>>
    /\ bus = EventBusInit
    /\ qargs = None

QuoterIdle == LoopIdle /\ IoIdle

\* ------------------------------------------------------------------------
\* RiskLimits driven by arbitrary sequences of its operations
\* ------------------------------------------------------------------------
\* the instants at which the harness reads the clock
Instants == {0, 1, CancelWindow, CancelWindow + 1, MaxTime}
Mids == [s \in Symbols |-> IF s = "A" THEN {1, 3} ELSE {3}]
Quantities == [s \in Symbols |-> IF s = "A" THEN {-2, 1} ELSE {1}]
PnlDeltas == {-3, -2, 4}
RiskOrderIds == {1, 2}

RiskOrders ==
    {Order("A", BUY, 1, 1), Order("A", SELL, 1, 1), Order("A", BUY, 1, 2),
     Order("A", SELL, 3, 2), Order("B", BUY, 1, 1)}

Called(op, symbol, r) ==
    /\ lastCall' = [op |-> op, symbol |-> symbol]
    /\ ret' = "none"
    /\ risk' = r
    /\ peakSeen' = Max(peakSeen, r.realized_pnl)
    /\ now' = now
    /\ UNCHANGED <<ksVars, quoterVars>>

RUpdateMid ==
    \E s \in Symbols : \E m \in Mids[s] :
        Called("update_mid", s, update_mid(risk, s, m))

RUpdateInventory ==
    \E s \in Symbols : \E q \in Quantities[s] :
        Called("update_inventory", s, update_inventory(risk, s, q))

RCheckOrder ==
    \E o \in RiskOrders :
        LET res == check_order(risk, o, now) IN
        /\ lastCall' = [op |-> "check_order", symbol |-> o.symbol, order |-> o]
        /\ ret' = IF res.ok THEN "allow" ELSE "deny"
        /\ risk' = res.risk
        /\ UNCHANGED <<now, peakSeen, ksVars, quoterVars>>

RRecordCancel ==
    \E s \in Symbols :
        /\ SumOver(Symbols, [x \in Symbols |-> Len(risk.cancel_events[x])]) < MaxCancelEvents
        /\ Called("record_cancel", s, record_cancel(risk, s, now))

RRecordFill ==
    \E d \in Side, m \in Mids["B"], pd \in PnlDeltas :
        LET f == Fill(1, "A", d, m, 1, 0)
            r == record_fill(risk, f, m, pd)
        IN  /\ Abs(r.inventory["A"]) <= MaxInv
            /\ r.realized_pnl <= MaxPnl
            /\ Called("record_fill", "A", r)

RRegisterOrder ==
    \E i \in RiskOrderIds :
        Called("register_order", "A", register_order(risk, i, Order("A", BUY, 3, 1)))

RRemoveOrder ==
    \E i \in RiskOrderIds :
        Called("remove_order", "A", remove_order(risk, i, "A"))

RSyncOrders ==
    \E ids \in SUBSET RiskOrderIds :
        Called("sync_orders", "A", sync_orders(risk, "A", [i \in ids |-> 3]))

RTick ==
    \E t \in Instants :
        /\ t > now
        /\ now' = t
        /\ lastCall' = [op |-> "tick", symbol |-> "A"]
        /\ ret' = "none"
        /\ UNCHANGED <<risk, peakSeen, ksVars, quoterVars>>

RiskIdle ==
    /\ risk = RiskInit
    /\ now = 0
    /\ lastCall = [op |-> "init", symbol |-> "A"]
    /\ ret = "none"
    /\ peakSeen = 0

KsIdle ==
    /\ ks = KillSwitchInit(1)
    /\ ksPc = [c \in {} |-> "idle"]
    /\ ksCalls = 0
    /\ ksFired = <<>>
    /\ ksResets = 0

InitRisk == RiskIdle /\ KsIdle /\ QuoterIdle

\* every operation, at one instant
NextRisk ==
    \/ RUpdateMid
    \/ RUpdateInventory
    \/ RCheckOrder
    \/ RRecordCancel
    \/ RRecordFill
    \/ RRegisterOrder
    \/ RRemoveOrder
    \/ RSyncOrders

SpecRisk == InitRisk /\ [][NextRisk]_vars

\* the cancel-rate window: cancels, checks and inventory changes as time passes
NextRiskWindow ==
    \/ RUpdateInventory
    \/ RCheckOrder
    \/ RRecordCancel
    \/ RTick

SpecRiskWindow == InitRisk /\ [][NextRiskWindow]_vars

\* check_order, remembering the cancel events the call found
WCheckOrder ==
    \E o \in RiskOrders :
        LET res == check_order(risk, o, now) IN
        /\ lastCall' = [op |-> "check_order", symbol |-> o.symbol, order |-> o,
                        found |-> risk.cancel_events[o.symbol]]
        /\ ret' = IF res.ok THEN "allow" ELSE "deny"
        /\ risk' = res.risk
        /\ UNCHANGED <<now, peakSeen, ksVars, quoterVars>>

NextRiskRate ==
    \/ RUpdateInventory
    \/ WCheckOrder
    \/ RRecordCancel
    \/ RTick

SpecRiskRate == InitRisk /\ [][NextRiskRate]_vars

\* the open-order counts: orders of both symbols are registered and removed
GRegisterOrder ==
    \E s \in Symbols, i \in RiskOrderIds :
        Called("register_order", s, register_order(risk, i, Order(s, BUY, 1, 1)))

GRemoveOrder ==
    \E s \in Symbols, i \in RiskOrderIds :
        Called("remove_order", s, remove_order(risk, i, s))

NextRiskOrders ==
    \/ GRegisterOrder
    \/ GRemoveOrder
    \/ RUpdateInventory
    \/ RCheckOrder

SpecRiskOrders == InitRisk /\ [][NextRiskOrders]_vars

\* ------------------------------------------------------------------------
\* KillSwitch driven by concurrent callers of record_error and by reset()
\* ------------------------------------------------------------------------
Callers == {"q1", "q2"}
Reasons == {"e1", "e2"}

\* a caller gets the lock and runs record_error up to the callback's await
KsRecordError ==
    \E c \in Callers, reason \in Reasons :
        LET res == record_error(ks, c, reason) IN
        /\ ksPc[c] = "idle"
        /\ ks.lock = NoHolder
        /\ ksCalls < MaxErrors
        /\ ks' = res.ks
        /\ ksCalls' = ksCalls + 1
        /\ ksFired' = IF res.fire
                      THEN Append(ksFired, [call |-> ksCalls + 1, reason |-> reason])
                      ELSE ksFired
        /\ ksPc' = IF res.fire THEN [ksPc EXCEPT ![c] = "in_callback"] ELSE ksPc
        /\ UNCHANGED <<ksResets, riskVars, quoterVars>>

\* the awaited callback returns to record_error
KsCallbackReturns ==
    \E c \in Callers :
        /\ ksPc[c] = "in_callback"
        /\ ks' = record_error_finish(ks)
        /\ ksPc' = [ksPc EXCEPT ![c] = "idle"]
        /\ UNCHANGED <<ksCalls, ksFired, ksResets, riskVars, quoterVars>>

\* the awaited callback raises: the lock is released, the count is not cleared
KsCallbackRaises ==
    \E c \in Callers :
        /\ ksPc[c] = "in_callback"
        /\ ks' = [ks EXCEPT !.lock = NoHolder]
        /\ ksPc' = [ksPc EXCEPT ![c] = "idle"]
        /\ UNCHANGED <<ksCalls, ksFired, ksResets, riskVars, quoterVars>>

KsReset ==
    /\ ks.lock = NoHolder
    /\ ksResets < MaxResets
    /\ ks' = reset(ks)
    /\ ksCalls' = 0
    /\ ksFired' = <<>>
    /\ ksResets' = ksResets + 1
    /\ UNCHANGED <<ksPc, riskVars, quoterVars>>

InitKS ==
    /\ RiskIdle
    /\ QuoterIdle
    /\ \E n \in 1..MaxThreshold : ks = KillSwitchInit(n)
    /\ ksPc = [c \in Callers |-> "idle"]
    /\ ksCalls = 0
    /\ ksFired = <<>>
    /\ ksResets = 0

NextKS ==
    \/ KsRecordError
    \/ KsCallbackReturns
    \/ KsCallbackRaises
    \/ KsReset

SpecKS == InitKS /\ [][NextKS]_vars

\* ------------------------------------------------------------------------
\* The quoting loop of one quoter (Quoter.start) on a paper or a live venue
\* ------------------------------------------------------------------------
\* what the feed may have published and what the pricing model may answer
Snapshots == {Snapshot(QSymbol, 3, 5), Snapshot(QSymbol, 2, 2), Snapshot(QSymbol, 6, 6)}
Quotes == {QuoteResult(2, 4), QuoteResult(4, 6)}
\* seconds the clock may advance over one jitter_sleep(refresh)
SleepSteps == {1, 11}

harnessVars == <<lastCall, ret, peakSeen, ksPc, ksCalls, ksFired, ksResets,
                 _policy, hedgedAt, fillsApplied, bus, qargs, ioVars>>

Here == World(conn, risk, st, orphan)

Commit(w) ==
    /\ conn' = w.conn
    /\ risk' = w.risk
    /\ st' = w.st
    /\ orphan' = w.orphan

Proceeds == pc = "top" /\ running /\ ~halted(risk) /\ ~tripped(ks) /\ iters < MaxIters

\* other tasks run only while the quoter task is suspended in an await: a storage
\* write or a sleep (and, on a live venue, a call to the venue: see LiveFill)
Suspended == pc \in {"miss_sleep", "record", "sleep", "halt_sleep"}

\* a trade of the venue against a resting order, as the fill poller queues it
VenueFills(c, o) ==
    [c EXCEPT !.orders = SelectOrders(@, [i \in OrderIds(@) |-> i # o.order_id]),
              !.fills = Append(@, Fill(o.order_id, o.symbol, o.side, o.price,
                                       o.remaining, 0))]

\* the loop test fails after stop(): on to the finally block
QExitStopped ==
    /\ pc = "top"
    /\ ~running
    /\ pc' = "finally"
    /\ UNCHANGED <<conn, risk, st, orphan, hedger, running, snapshot, quote,
                   raw_orders, iters, filledSince, now, ks, harnessVars>>

\* risk halted: cancel all, then sleep(1.0) and break
QExitHalted ==
    /\ pc = "top"
    /\ running
    /\ halted(risk)
    /\ \E w \in {_cancel_all(Here)} : Commit(w)
    /\ pc' = "halt_sleep"
    /\ UNCHANGED <<hedger, running, snapshot, quote, raw_orders, iters, filledSince,
                   now, ks, harnessVars>>

\* the sleep(1.0) of the halted branch ends
QHaltSleep ==
    /\ pc = "halt_sleep"
    /\ now' = now + 1
    /\ pc' = "finally"
    /\ UNCHANGED <<conn, risk, st, orphan, hedger, running, snapshot, quote,
                   raw_orders, iters, filledSince, ks, harnessVars>>

\* kill switch tripped: cancel all and break
QExitTripped ==
    /\ pc = "top"
    /\ running
    /\ ~halted(risk)
    /\ tripped(ks)
    /\ \E w \in {_cancel_all(Here)} : Commit(w)
    /\ pc' = "finally"
    /\ UNCHANGED <<hedger, running, snapshot, quote, raw_orders, iters, filledSince,
                   now, ks, harnessVars>>

\* no snapshot (or no feature) published yet: sleep(0.1) ...
QMissing ==
    /\ Proceeds
    /\ snapshot = None
    /\ iters' = iters + 1
    /\ pc' = "miss_sleep"
    /\ UNCHANGED <<conn, risk, st, orphan, hedger, running, snapshot, quote,
                   raw_orders, filledSince, now, ks, harnessVars>>

\* ... and continue
QMissingContinue ==
    /\ pc = "miss_sleep"
    /\ pc' = "top"
    /\ UNCHANGED <<conn, risk, st, orphan, hedger, running, snapshot, quote,
                   raw_orders, iters, filledSince, now, ks, harnessVars>>

\* read the latest snapshot, push its mid to risk, generate the quote
QQuote ==
    /\ Proceeds
    /\ \E s \in Snapshots, q \in Quotes :
        /\ snapshot' = <<s>>
        /\ quote' = <<q>>
        /\ risk' = update_mid(risk, QSymbol, Mid(s))
    /\ iters' = iters + 1
    /\ pc' = "record"
    /\ UNCHANGED <<conn, st, orphan, hedger, running, raw_orders, filledSince, now, ks,
                   harnessVars>>

\* storage.record_snapshot returns
QRecordSnapshot ==
    /\ pc = "record"
    /\ pc' = "reconcile"
    /\ UNCHANGED <<conn, risk, st, orphan, hedger, running, snapshot, quote,
                   raw_orders, iters, filledSince, now, ks, harnessVars>>

\* storage.record_snapshot raises
QRecordSnapshotRaises ==
    /\ pc = "record"
    /\ pc' = "except"
    /\ UNCHANGED <<conn, risk, st, orphan, hedger, running, snapshot, quote,
                   raw_orders, iters, filledSince, now, ks, harnessVars>>

\* _replace_orders: list the venue's orders, adopt them in the map and in risk
QListOrders ==
    /\ pc = "reconcile"
    /\ \E raw \in {list_orders(conn.orders, QSymbol)} :
           /\ raw_orders' = raw
           /\ \E w \in {SyncListed(Here, raw)} : Commit(w)
    /\ filledSince' = {}
    /\ pc' = "replace_buy"
    /\ UNCHANGED <<hedger, running, snapshot, quote, iters, now, ks, harnessVars>>

\* _replace_orders: keep, or cancel and place, the BUY side
QReplaceBuy ==
    /\ pc = "replace_buy"
    /\ \E w \in {ReplaceSide(Here, BUY, quote[1].bid, LastOfSide(raw_orders, BUY), now)} : Commit(w)
    /\ pc' = "replace_sell"
    /\ UNCHANGED <<hedger, running, snapshot, quote, raw_orders, iters, filledSince,
                   now, ks, harnessVars>>

\* _replace_orders: ... then the SELL side
QReplaceSell ==
    /\ pc = "replace_sell"
    /\ \E w \in {ReplaceSide(Here, SELL, quote[1].ask, LastOfSide(raw_orders, SELL), now)} : Commit(w)
    /\ pc' = "cross"
    /\ UNCHANGED <<hedger, running, snapshot, quote, raw_orders, iters, filledSince,
                   now, ks, harnessVars>>

\* connector.process_cross against the snapshot
QProcessCross ==
    /\ pc = "cross"
    /\ conn' = process_cross(conn, QSymbol, snapshot[1].bid, snapshot[1].ask)
    /\ pc' = "drain"
    /\ UNCHANGED <<risk, st, orphan, hedger, running, snapshot, quote, raw_orders,
                   iters, filledSince, now, ks, harnessVars>>

\* _drain_fills polls the queue empty; then `if risk.halted: continue`
QDrainFills ==
    /\ pc = "drain"
    /\ \E w \in {DrainLoop(Here, snapshot[1], Len(conn.fills))} :
        /\ Commit(w)
        /\ pc' = IF halted(w.risk) THEN "top" ELSE "hedge"
    /\ UNCHANGED <<hedger, running, snapshot, quote, raw_orders, iters, filledSince,
                   now, ks, harnessVars>>

\* ... or storage.record_trade raises on the n-th fill polled
QDrainFillsRaises ==
    /\ pc = "drain"
    /\ \E n \in 1..Len(conn.fills) :
        \E w \in {DrainApply(DrainLoop(Here, snapshot[1], n - 1), snapshot[1])} : Commit(w)
    /\ pc' = "except"
    /\ UNCHANGED <<hedger, running, snapshot, quote, raw_orders, iters, filledSince,
                   now, ks, harnessVars>>

\* hedge, adopt the hedged inventory, push it to risk
QHedge ==
    /\ pc = "hedge"
    /\ \E res \in {maybe_hedge(hedger, _policy, conn, snapshot[1], st.inventory,
                              tick_size, lot_size, now)} :
           /\ hedger' = res.hedger
           /\ conn' = res.conn
           /\ st' = [st EXCEPT !.inventory = res.inventory]
           /\ risk' = update_inventory(risk, QSymbol, res.inventory)
    /\ pc' = "sweep"
    /\ UNCHANGED <<orphan, running, snapshot, quote, raw_orders, iters, filledSince,
                   now, ks, harnessVars>>

\* orphan.sweep()
QSweep ==
    /\ pc = "sweep"
    /\ \E res \in {sweep(conn, orphan, now)} :
           /\ conn' = res.conn
           /\ orphan' = res.orphan
    /\ pc' = "sleep"
    /\ UNCHANGED <<risk, st, hedger, running, snapshot, quote, raw_orders, iters,
                   filledSince, now, ks, harnessVars>>

\* the snapshot read, the signals or the pricing model raise
QQuoteRaises ==
    /\ Proceeds
    /\ iters' = iters + 1
    /\ pc' = "except"
    /\ UNCHANGED <<conn, risk, st, orphan, hedger, running, snapshot, quote,
                   raw_orders, filledSince, now, ks, harnessVars>>

\* a call of the rest of the iteration raises before it has had an effect
QStepRaises ==
    /\ pc \in {"reconcile", "replace_buy", "replace_sell", "cross", "hedge", "sweep"}
    /\ pc' = "except"
    /\ UNCHANGED <<conn, risk, st, orphan, hedger, running, snapshot, quote,
                   raw_orders, iters, filledSince, now, ks, harnessVars>>

\* variant: the handler logs and sleeps, and reports nothing
QExcept_silent ==
    /\ pc = "except"
    /\ pc' = "sleep"
    /\ UNCHANGED <<conn, risk, st, orphan, hedger, running, snapshot, quote,
                   raw_orders, iters, filledSince, now, ks, harnessVars>>

\* variant: the handler lets the exception out of the loop
QExcept_reraises ==
    /\ pc = "except"
    /\ pc' = "finally"
    /\ UNCHANGED <<conn, risk, st, orphan, hedger, running, snapshot, quote,
                   raw_orders, iters, filledSince, now, ks, harnessVars>>

\* except Exception: report to the kill switch (whose callback returns at once)
QExcept ==
    /\ pc = "except"
    /\ LET res == record_error(ks, "q", "quoting loop")
       IN  ks' = IF res.fire THEN record_error_finish(res.ks) ELSE res.ks
    /\ pc' = "sleep"
    /\ UNCHANGED <<conn, risk, st, orphan, hedger, running, snapshot, quote,
                   raw_orders, iters, filledSince, now, harnessVars>>

\* jitter_sleep(refresh) at the end of the loop body
QSleep ==
    /\ pc = "sleep"
    /\ \E d \in SleepSteps : now' = now + d
    /\ pc' = "top"
    /\ UNCHANGED <<conn, risk, st, orphan, hedger, running, snapshot, quote,
                   raw_orders, iters, filledSince, ks, harnessVars>>

\* variant: start() returns without the finally block
QFinally_returns ==
    /\ pc = "finally"
    /\ pc' = "done"
    /\ UNCHANGED <<conn, risk, st, orphan, hedger, running, snapshot, quote,
                   raw_orders, iters, filledSince, now, ks, harnessVars>>

\* finally: cancel all; start() returns
QFinally ==
    /\ pc = "finally"
    /\ \E w \in {_cancel_all(Here)} : Commit(w)
    /\ pc' = "done"
    /\ UNCHANGED <<hedger, running, snapshot, quote, raw_orders, iters, filledSince,
                   now, ks, harnessVars>>

\* Quoter.stop() called by another task while the loop is suspended
QStop ==
    /\ running
    /\ Suspended
    /\ running' = FALSE
    /\ UNCHANGED <<conn, risk, st, orphan, hedger, pc, snapshot, quote, raw_orders,
                   iters, filledSince, now, ks, harnessVars>>

\* another user of the shared kill switch reports an error
OtherRecordError ==
    /\ ~tripped(ks)
    /\ pc = "sleep"
    /\ LET res == record_error(ks, "other", "elsewhere")
       IN  ks' = IF res.fire THEN record_error_finish(res.ks) ELSE res.ks
    /\ UNCHANGED <<conn, risk, st, orphan, hedger, pc, running, snapshot, quote,
                   raw_orders, iters, filledSince, now, harnessVars>>

\* the live venue fills a resting order and the poller queues the fill, while
\* the quoter sleeps or waits for the venue's answer within _replace_orders
LiveFill ==
    /\ ~conn.paper
    /\ pc \in {"sleep", "replace_buy", "replace_sell"}
    /\ \E i \in DOMAIN conn.orders :
        /\ conn' = VenueFills(conn, conn.orders[i])
        /\ filledSince' = IF pc # "sleep"
                          THEN filledSince \cup {conn.orders[i].order_id}
                          ELSE filledSince
    /\ UNCHANGED <<risk, st, orphan, hedger, pc, running, snapshot, quote, raw_orders,
                   iters, now, ks, harnessVars>>

QuoterStep ==
    \/ QExitStopped
    \/ QExitHalted
    \/ QHaltSleep
    \/ QExitTripped
    \/ QMissing
    \/ QMissingContinue
    \/ QQuote
    \/ QRecordSnapshot
    \/ QRecordSnapshotRaises
    \/ QListOrders
    \/ QReplaceBuy
    \/ QReplaceSell
    \/ QProcessCross
    \/ QDrainFills
    \/ QDrainFillsRaises
    \/ QHedge
    \/ QSweep
    \/ QExcept
    \/ QSleep
    \/ QFinally

InitQuoter ==
    /\ risk = RiskInit
    /\ now = 0
    /\ lastCall = [op |-> "init", symbol |-> "A"]
    /\ ret = "none"
    /\ peakSeen = 0
    /\ ks = KillSwitchInit(kill_switch_threshold)
    /\ ksPc = [c \in {} |-> "idle"]
    /\ ksCalls = 0
    /\ ksFired = <<>>
    /\ ksResets = 0
    /\ conn \in {ConnInit(TRUE), ConnInit(FALSE)}
    /\ st = SymbolStateInit
    /\ orphan = <<>>
    /\ hedger = HedgerInit
    /\ pc = "top"
    /\ running = TRUE
    /\ snapshot = None
    /\ quote = None
    /\ raw_orders = <<>>
    /\ iters = 0
    /\ filledSince = {}
    /\ _policy = HedgePolicy
    /\ hedgedAt = None
    /\ fillsApplied = <<>>
    /\ bus = EventBusInit
    /\ qargs = None
    /\ IoIdle

NextQuoter == QuoterStep \/ QStop \/ OtherRecordError \/ LiveFill

SpecQuoter == InitQuoter /\ [][NextQuoter]_vars

\* the same loop when, besides the storage, any step of an iteration may raise
NextQuoterErr == NextQuoter \/ QQuoteRaises \/ QStepRaises

SpecQuoterErr == InitQuoter /\ [][NextQuoterErr]_vars

\* the live venue fills a resting order while maybe_hedge waits for the
\* venue's answer to place_order: the poller queues the fill before the
\* hedger reads the queue
HedgeFill ==
    /\ ~conn.paper
    /\ pc = "hedge"
    /\ \E i \in DOMAIN conn.orders :
        /\ conn' = VenueFills(conn, conn.orders[i])
        /\ filledSince' = filledSince \cup {conn.orders[i].order_id}
    /\ UNCHANGED <<risk, st, orphan, hedger, pc, running, snapshot, quote, raw_orders,
                   iters, now, ks, harnessVars>>

NextQuoterHedge == NextQuoter \/ HedgeFill

SpecQuoterHedge == InitQuoter /\ [][NextQuoterHedge]_vars

\* Every step of the quoter task moves pc, and no other step does; the task can
\* take a step unless it has returned or stands at the loop test with the
\* model's budget of iterations spent.
QuoterCanStep ==
    /\ pc \notin {"idle", "recon", "done"}
    /\ pc = "top" => (~running \/ halted(risk) \/ tripped(ks) \/ iters < MaxIters)

QuoterMoves ==
    /\ QuoterCanStep
    /\ pc' \in {"top", "miss_sleep", "record", "reconcile", "replace_buy", "replace_sell",
               "cross", "drain", "hedge", "sweep", "except", "sleep", "halt_sleep",
               "finally", "done"}
    /\ pc' # pc

\* the event loop runs the quoter task whenever it can take a step
SpecQuoterFair == SpecQuoter /\ WF_pc(QuoterMoves)

\* ------------------------------------------------------------------------
\* _replace_orders run again and again against a venue that lists any book
\* ------------------------------------------------------------------------
BookPrices == 1..5
BookEntries == Side \X BookPrices

BookOf(entries) ==
    [i \in DOMAIN entries |->
        OrderState(i, Order(QSymbol, entries[i][1], entries[i][2], lot_size), lot_size)]

Books ==
    {BookOf(e) : e \in UNION {[1..n -> BookEntries] : n \in 0..MaxBook}}

RcReconcile ==
    /\ pc = "recon"
    /\ iters < MaxRecons
    /\ \E w \in {_replace_orders(Here, quote[1], now)} : Commit(w)
    /\ iters' = iters + 1
    /\ UNCHANGED <<hedger, pc, running, snapshot, quote, raw_orders, filledSince,
                   now, ks, harnessVars>>

\* the pricing model answers another quote
RcRequote ==
    /\ pc = "recon"
    /\ \E q \in Quotes : quote # <<q>> /\ quote' = <<q>>
    /\ UNCHANGED <<conn, risk, st, orphan, hedger, pc, running, snapshot, raw_orders,
                   iters, filledSince, now, ks, harnessVars>>

InitRecon ==
    /\ RiskIdle
    /\ KsIdle
    /\ \E book \in Books :
        conn = [paper |-> TRUE, orders |-> book, fills |-> <<>>,
                next_id |-> Len(book) + 1]
    /\ st = SymbolStateInit
    /\ orphan = <<>>
    /\ hedger = HedgerInit
    /\ pc = "recon"
    /\ running = TRUE
    /\ snapshot = None
    /\ \E q \in Quotes : quote = <<q>>
    /\ raw_orders = <<>>
    /\ iters = 0
    /\ filledSince = {}
    /\ _policy = HedgePolicy
    /\ hedgedAt = None
    /\ fillsApplied = <<>>
    /\ bus = EventBusInit
    /\ qargs = None
    /\ IoIdle

NextRecon == RcReconcile \/ RcRequote

SpecRecon == InitRecon /\ [][NextRecon]_vars


\* ------------------------------------------------------------------------
\* Hedger.maybe_hedge called again and again, as the quoter calls it
\* ------------------------------------------------------------------------
\* the policies a Hedger may be built with (threshold, ratio >= 0; notional > 0)
Policies ==
    {[enabled |-> e, threshold |-> th, max_notional |-> mn,
      ratio_num |-> r[1], ratio_den |-> r[2], cooldown_seconds |-> 30] :
        e \in BOOLEAN, th \in {0, 1, 2}, mn \in {3, 12},
        r \in {<<0, 1>>, <<1, 1>>, <<1, 2>>}}
HedgeInventories == {-2, 0, 1, 3}
\* (tick_size, lot_size) of the symbol
HedgeSizes == {<<2, 1>>, <<1, 2>>}
\* seconds between one call and the next
HedgeSteps == {1, 29, 30}

hedgeFrame == <<risk, lastCall, ret, peakSeen, ksVars, orphan, running, quote,
                raw_orders, filledSince, fillsApplied, _policy, bus,
                qargs, ioVars>>

\* the quoter's inventory and snapshot at its next call, some time later
HArgs ==
    /\ pc = "args"
    /\ iters < MaxHedges
    /\ \E inv \in HedgeInventories : st' = [st EXCEPT !.inventory = inv]
    /\ \E snap \in Snapshots : snapshot' = <<snap>>
    /\ \E d \in HedgeSteps : now' = now + d
    /\ pc' = "hedge"
    /\ UNCHANGED <<conn, hedger, iters, hedgedAt, hedgeFrame>>

\* variant: the call is made as if the policy were enabled
HMaybeHedge_enabled ==
    /\ pc = "hedge"
    /\ \E sz \in HedgeSizes :
        \E res \in {maybe_hedge(hedger, [_policy EXCEPT !.enabled = TRUE], conn,
                                 snapshot[1], st.inventory, sz[1], sz[2], now)} :
           /\ hedger' = res.hedger
           /\ conn' = res.conn
           /\ st' = [st EXCEPT !.inventory = res.inventory]
           /\ hedgedAt' = IF res.inventory # st.inventory THEN <<now>> ELSE hedgedAt
    /\ iters' = iters + 1
    /\ pc' = "args"
    /\ UNCHANGED <<snapshot, now, hedgeFrame>>

\* hedged_inventory = await maybe_hedge(...); state.inventory = hedged_inventory
HMaybeHedge ==
    /\ pc = "hedge"
    /\ \E sz \in HedgeSizes :
        \E res \in {maybe_hedge(hedger, _policy, conn, snapshot[1], st.inventory,
                                 sz[1], sz[2], now)} :
           /\ hedger' = res.hedger
           /\ conn' = res.conn
           /\ st' = [st EXCEPT !.inventory = res.inventory]
           /\ hedgedAt' = IF res.inventory # st.inventory THEN <<now>> ELSE hedgedAt
    /\ iters' = iters + 1
    /\ pc' = "args"
    /\ UNCHANGED <<snapshot, now, hedgeFrame>>

InitHedge ==
    /\ RiskIdle
    /\ KsIdle
    /\ conn \in {ConnInit(TRUE), ConnInit(FALSE)}
    /\ st = SymbolStateInit
    /\ orphan = <<>>
    /\ hedger = HedgerInit
    /\ pc = "args"
    /\ running = FALSE
    /\ snapshot = None
    /\ quote = None
    /\ raw_orders = <<>>
    /\ iters = 0
    /\ filledSince = {}
    /\ _policy \in Policies
    /\ hedgedAt = None
    /\ fillsApplied = <<>>
    /\ bus = EventBusInit
    /\ qargs = None
    /\ IoIdle

NextHedge == HArgs \/ HMaybeHedge

SpecHedge == InitHedge /\ [][NextHedge]_vars

\* ------------------------------------------------------------------------
\* The fill accounting alone: the venue queues fills of any side, price and
\* size, and _drain_fills applies them one by one to a flat SymbolState.
\* ------------------------------------------------------------------------
FillPrices == {2, 3, 6}
FillSizes == {1, 2, 3}

fillsFrame == <<now, lastCall, ret, peakSeen, ksVars, orphan, hedger, pc, running,
                snapshot, quote, raw_orders, iters, filledSince, _policy, hedgedAt,
                bus, qargs, ioVars>>

\* the venue reports a fill: poll_fill will hand it out
FVenueFill ==
    /\ Len(fillsApplied) + Len(conn.fills) < MaxFills
    /\ \E side \in Side : \E price \in FillPrices : \E size \in FillSizes :
          conn' = [conn EXCEPT
                     !.fills = Append(@, Fill(0, QSymbol, side, price, size, 0))]
    /\ UNCHANGED <<risk, st, fillsApplied, fillsFrame>>

\* one turn of the loop in _drain_fills
FDrainFill ==
    /\ conn.fills # <<>>
    /\ \E w \in {DrainLoop(World(conn, risk, st, orphan), snapshot[1], 1)} :
          /\ conn' = w.conn
          /\ risk' = w.risk
          /\ st' = w.st
    /\ fillsApplied' = Append(fillsApplied, Head(conn.fills))
    /\ UNCHANGED fillsFrame

InitFills ==
    /\ RiskIdle
    /\ KsIdle
    /\ conn = ConnInit(FALSE)
    /\ st = SymbolStateInit
    /\ orphan = <<>>
    /\ hedger = HedgerInit
    /\ pc = "drain"
    /\ running = TRUE
    /\ snapshot \in {<<snap>> : snap \in Snapshots}
    /\ quote = None
    /\ raw_orders = <<>>
    /\ iters = 0
    /\ filledSince = {}
    /\ _policy = HedgePolicy
    /\ hedgedAt = None
    /\ fillsApplied = <<>>
    /\ bus = EventBusInit
    /\ qargs = None
    /\ IoIdle

NextFills == FVenueFill \/ FDrainFill

SpecFills == InitFills /\ [][NextFills]_vars

\* ------------------------------------------------------------------------
\* The paper venue alone: orders of two symbols are placed, and the market
\* of one symbol is crossed against the book.
\* ------------------------------------------------------------------------
CrossPrices == {2, 4}
\* the orders placed: one lot at the lower price, two at the higher
CrossOrders ==
    {Order(symbol, side, price, price \div 2) :
        symbol \in Symbols, side \in Side, price \in CrossPrices}
\* (bid, ask) handed to process_cross
Markets == {<<3, 3>>, <<2, 4>>}

crossFrame == <<riskVars, ksVars, st, orphan, hedger, running, quote, raw_orders,
                iters, filledSince, _policy, hedgedAt, fillsApplied, bus, qargs, ioVars>>

CPlaceOrder ==
    /\ conn.next_id <= MaxPlaced
    /\ \E order \in CrossOrders : conn' = place_order(conn, order).conn
    /\ pc' = "placed"
    /\ UNCHANGED <<snapshot, crossFrame>>

CProcessCross ==
    /\ \E symbol \in Symbols : \E m \in Markets :
          /\ snapshot' = <<Snapshot(symbol, m[1], m[2])>>
          /\ conn' = process_cross(conn, symbol, m[1], m[2])
    /\ pc' = "crossed"
    /\ UNCHANGED crossFrame

InitCross ==
    /\ RiskIdle
    /\ KsIdle
    /\ conn = ConnInit(TRUE)
    /\ st = SymbolStateInit
    /\ orphan = <<>>
    /\ hedger = HedgerInit
    /\ pc = "new"
    /\ running = FALSE
    /\ snapshot = None
    /\ quote = None
    /\ raw_orders = <<>>
    /\ iters = 0
    /\ filledSince = {}
    /\ _policy = HedgePolicy
    /\ hedgedAt = None
    /\ fillsApplied = <<>>
    /\ bus = EventBusInit
    /\ qargs = None
    /\ IoIdle

NextCross == CPlaceOrder \/ CProcessCross

SpecCross == InitCross /\ [][NextCross]_vars

\* ------------------------------------------------------------------------
\* ExchangeConnector.cancel_order on the paper venue and on a live venue.
\* The live venue answers a cancel of an id it no longer has as it pleases:
\* it ignores it, or exchange.cancel_order raises and _call re-raises.
\* ------------------------------------------------------------------------
cancelFrame == <<risk, now, peakSeen, ksVars, st, orphan, hedger, running, quote,
                 raw_orders, iters, filledSince, _policy, hedgedAt, fillsApplied,
                 snapshot, bus, qargs, ioVars>>

KPlaceOrder ==
    /\ conn.next_id <= MaxPlaced
    /\ \E side \in Side : \E price \in CrossPrices :
          conn' = place_order(conn, Order(QSymbol, side, price, 1)).conn
    /\ pc' = "placed"
    /\ UNCHANGED <<lastCall, ret, cancelFrame>>

\* the paper venue crosses the book at bid = ask = 3
KProcessCross ==
    /\ conn.paper
    /\ conn' = process_cross(conn, QSymbol, 3, 3)
    /\ pc' = "crossed"
    /\ UNCHANGED <<lastCall, ret, cancelFrame>>

\* the live venue trades against a resting order
KVenueFill ==
    /\ ~conn.paper
    /\ \E i \in DOMAIN conn.orders : conn' = VenueFills(conn, conn.orders[i])
    /\ pc' = "filled"
    /\ UNCHANGED <<lastCall, ret, cancelFrame>>

\* cancel_order(order_id) returns
KCancelOrder ==
    /\ \E order_id \in 1..MaxPlaced :
          /\ conn' = cancel_order(conn, order_id)
          /\ lastCall' = [op |-> "cancel_order", order_id |-> order_id]
    /\ ret' = "ok"
    /\ pc' = "cancelled"
    /\ UNCHANGED cancelFrame

\* cancel_order(order_id) raises what exchange.cancel_order raised
KCancelOrderRaises ==
    /\ ~conn.paper
    /\ \E order_id \in 1..MaxPlaced :
          /\ order_id \notin OrderIds(conn.orders)
          /\ lastCall' = [op |-> "cancel_order", order_id |-> order_id]
    /\ ret' = "raised"
    /\ pc' = "cancelled"
    /\ UNCHANGED <<conn, cancelFrame>>

InitCancel ==
    /\ RiskIdle
    /\ KsIdle
    /\ conn \in {ConnInit(TRUE), ConnInit(FALSE)}
    /\ st = SymbolStateInit
    /\ orphan = <<>>
    /\ hedger = HedgerInit
    /\ pc = "new"
    /\ running = FALSE
    /\ snapshot = None
    /\ quote = None
    /\ raw_orders = <<>>
    /\ iters = 0
    /\ filledSince = {}
    /\ _policy = HedgePolicy
    /\ hedgedAt = None
    /\ fillsApplied = <<>>
    /\ bus = EventBusInit
    /\ qargs = None
    /\ IoIdle

NextCancel ==
    \/ KPlaceOrder
    \/ KProcessCross
    \/ KVenueFill
    \/ KCancelOrder
    \/ KCancelOrderRaises

SpecCancel == InitCancel /\ [][NextCancel]_vars

\* ------------------------------------------------------------------------
\* The orphan reaper alone: orders are placed and tracked as the quoter does,
\* time passes, the live venue fills some, and sweep() runs.
\* ------------------------------------------------------------------------
reaperFrame == <<risk, peakSeen, ksVars, st, hedger, running, quote, raw_orders,
                 iters, filledSince, _policy, hedgedAt, fillsApplied, snapshot,
                 bus, qargs, ioVars>>

\* order_id = await place_order(order); await self._orphan.track(order_id)
OPlaceTrack ==
    /\ conn.next_id <= MaxPlaced
    /\ \E placed \in {place_order(conn, Order(QSymbol, BUY, 2, 1))} :
          /\ conn' = placed.conn
          /\ orphan' = track(orphan, placed.order_id, now)
    /\ pc' = "placed"
    /\ UNCHANGED <<now, lastCall, ret, reaperFrame>>

OTick ==
    /\ \E d \in {1, timeout_seconds} :
          /\ now + d <= MaxSweepTime
          /\ now' = now + d
    /\ pc' = "tick"
    /\ UNCHANGED <<conn, orphan, lastCall, ret, reaperFrame>>

\* sweep() returns
OSweep ==
    /\ \E res \in {sweep(conn, orphan, now)} :
          /\ conn' = res.conn
          /\ orphan' = res.orphan
    /\ lastCall' = [op |-> "sweep", stale |-> Stale(orphan, now)]
    /\ ret' = "ok"
    /\ pc' = "swept"
    /\ UNCHANGED <<now, reaperFrame>>

\* sweep() raises: the live venue rejects the cancel of a stale id it no
\* longer holds; the stale ids before it (in the order they were tracked) are
\* cancelled and forgotten, that id and the later ones stay tracked
OSweepRaises ==
    /\ ~conn.paper
    /\ \E k \in Stale(orphan, now) \ OrderIds(conn.orders) :
          LET done == {i \in Stale(orphan, now) : i < k}
          IN  /\ conn' = CancelEach(conn, done)
              /\ orphan' = [i \in (DOMAIN orphan) \ done |-> orphan[i]]
    /\ lastCall' = [op |-> "sweep", stale |-> Stale(orphan, now)]
    /\ ret' = "raised"
    /\ pc' = "swept"
    /\ UNCHANGED <<now, reaperFrame>>

InitReaper ==
    /\ RiskIdle
    /\ KsIdle
    /\ conn \in {ConnInit(TRUE), ConnInit(FALSE)}
    /\ st = SymbolStateInit
    /\ orphan = <<>>
    /\ hedger = HedgerInit
    /\ pc = "new"
    /\ running = FALSE
    /\ snapshot = None
    /\ quote = None
    /\ raw_orders = <<>>
    /\ iters = 0
    /\ filledSince = {}
    /\ _policy = HedgePolicy
    /\ hedgedAt = None
    /\ fillsApplied = <<>>
    /\ bus = EventBusInit
    /\ qargs = None
    /\ IoIdle

NextReaper ==
    \/ OPlaceTrack
    \/ OTick
    \/ KVenueFill
    \/ OSweep
    \/ OSweepRaises

SpecReaper == InitReaper /\ [][NextReaper]_vars

\* ------------------------------------------------------------------------
\* The event bus alone: handlers come and go, two publishers publish.
\* ------------------------------------------------------------------------
busFrame == <<riskVars, ksVars, conn, st, orphan, hedger, pc, running, snapshot,
              quote, raw_orders, iters, filledSince, _policy, hedgedAt,
              fillsApplied, qargs, ioVars>>

\* how many publish calls were made
Published(b) == b.calls["feed1"].n + b.calls["feed2"].n

BSubscribe ==
    /\ \E topic \in Topics : \E handler \in Handlers :
          /\ bus.subscribed < MaxSubs
          /\ bus' = subscribe(bus, topic, handler)
    /\ UNCHANGED busFrame

BUnsubscribe ==
    /\ \E topic \in Topics : \E handler \in Handlers :
          bus' = unsubscribe(bus, topic, handler)
    /\ UNCHANGED busFrame

BPublish ==
    /\ \E p \in Publishers : \E topic \in Topics :
          /\ bus.calls[p].pc = "idle"
          /\ Published(bus) < MaxPublishes
          /\ bus' = publish(bus, p, topic)
    /\ UNCHANGED busFrame

BHandlerBegins ==
    /\ \E p \in Publishers :
          /\ bus.calls[p].pc = "gather"
          /\ bus.calls[p].begun < Len(bus.calls[p].called)
          /\ bus' = handler_begins(bus, p)
    /\ UNCHANGED busFrame

BHandlerEnds ==
    /\ \E p \in Publishers :
          /\ bus.calls[p].pc = "gather"
          /\ \E i \in (1..bus.calls[p].begun) \ bus.calls[p].over :
                bus' = handler_ends(bus, p, i)
    /\ UNCHANGED busFrame

\* variant: the handlers are started and not awaited
BPublishReturns_detached ==
    /\ \E p \in Publishers :
          /\ bus.calls[p].pc = "gather"
          /\ bus' = [bus EXCEPT !.calls[p] = NoCall(@.n)]
    /\ UNCHANGED busFrame

\* gather() is done: publish returns
BPublishReturns ==
    /\ \E p \in Publishers :
          /\ bus.calls[p].pc = "gather"
          /\ bus.calls[p].over = 1..Len(bus.calls[p].called)
          /\ bus' = [bus EXCEPT !.calls[p] = NoCall(@.n)]
    /\ UNCHANGED busFrame

InitBus == RiskIdle /\ KsIdle /\ QuoterIdle

NextBus ==
    \/ BSubscribe
    \/ BUnsubscribe
    \/ BPublish
    \/ BHandlerBegins
    \/ BHandlerEnds
    \/ BPublishReturns

SpecBus == InitBus /\ [][NextBus]_vars

\* ------------------------------------------------------------------------
\* generate_quotes alone: the model object and the arguments of the call are
\* drawn from the sets below into qargs, the call leaves its result in quote
\* ------------------------------------------------------------------------
Gammas == {<<1, 10>>, <<1, 1>>}
Horizons == {<<1, 1>>, <<10, 1>>}
LogTerms == {<<1, 100>>, <<1, 4>>}
MinSpreads == {<<0, 1>>, <<1, 100>>, <<1, 1>>}
SkewAlphas == {<<0, 1>>, <<1, 10>>}
SnapshotMids == {<<100, 1>>, <<101, 1>>}
Microprices == {<<100, 1>>}
QueueImbalances == {<<0, 1>>, <<1, 1>>}
OrderFlowImbalances == {<<0, 1>>, <<-1, 1>>}
Inventories == {-1, 0, 1}
Sigmas == {<<0, 1>>, <<1, 10>>, <<1, 2>>}
TickSizes == {<<1, 100>>, <<1, 1>>}
ImpactLambdas == {<<0, 1>>, <<1, 2>>}

\* log_term lies strictly between 0 and 1 / gamma
Models ==
    {m \in {AvellanedaStoikovModel(gamma, horizon, log_term, min_spread, skew_alpha) :
                gamma \in Gammas, horizon \in Horizons, log_term \in LogTerms,
                min_spread \in MinSpreads, skew_alpha \in SkewAlphas} :
        FLess(m.log_term, <<m.gamma[2], m.gamma[1]>>)}

Features ==
    {MicrostructureFeature(microprice, qi, ofi) :
        microprice \in Microprices, qi \in QueueImbalances,
        ofi \in OrderFlowImbalances}

\* the quoter passes its tick size as min_tick_spread too (mm/quoter.py)
QuoteArgs ==
    {[model |-> m, snapshot_mid |-> snapshot_mid, inventory |-> inventory,
      sigma |-> sigma, feature |-> feature, tick_size |-> tick,
      min_tick_spread |-> tick, impact_lambda |-> impact_lambda] :
        m \in Models, snapshot_mid \in SnapshotMids, inventory \in Inventories,
        sigma \in Sigmas, feature \in Features, tick \in TickSizes,
        impact_lambda \in ImpactLambdas}

modelFrame == <<riskVars, ksVars, conn, st, orphan, hedger, pc, running, snapshot,
                raw_orders, iters, filledSince, _policy, hedgedAt, fillsApplied,
                bus, qargs, ioVars>>

AGenerateQuotes ==
    /\ quote = None
    /\ quote' = <<generate_quotes(qargs.model, qargs.snapshot_mid, qargs.inventory,
                                  qargs.sigma, qargs.feature, qargs.tick_size,
                                  qargs.min_tick_spread, qargs.impact_lambda)>>
    /\ UNCHANGED modelFrame

InitModel ==
    /\ RiskIdle
    /\ KsIdle
    /\ conn = ConnInit(TRUE)
    /\ st = SymbolStateInit
    /\ orphan = <<>>
    /\ hedger = HedgerInit
    /\ pc = "idle"
    /\ running = FALSE
    /\ snapshot = None
    /\ quote = None
    /\ raw_orders = <<>>
    /\ iters = 0
    /\ filledSince = {}
    /\ _policy = HedgePolicy
    /\ hedgedAt = None
    /\ fillsApplied = <<>>
    /\ bus = EventBusInit
    /\ qargs \in QuoteArgs
    /\ IoIdle

NextModel == AGenerateQuotes

SpecModel == InitModel /\ [][NextModel]_vars

\* ------------------------------------------------------------------------
\* The fill poller alone: one fetch_my_trades after another, the venue
\* answering each with any one or two of its trades
\* ------------------------------------------------------------------------
MaxTrades == 4
MaxFetches == 3

TradeIds == 1..MaxTrades
FetchResults == {<<i>> : i \in TradeIds} \cup {<<i, j>> : i, j \in TradeIds}

pollerFrame == <<riskVars, ksVars, conn, st, orphan, hedger, pc, running, snapshot,
                 quote, raw_orders, iters, filledSince, _policy, hedgedAt,
                 fillsApplied, bus, qargs, vcall, feed, peer, twap>>

PFetch ==
    /\ poller.fetches < MaxFetches
    /\ \E trades \in FetchResults :
        poller' = [poll_trades(poller, trades) EXCEPT !.fetches = @ + 1]
    /\ UNCHANGED pollerFrame

InitPoller == RiskIdle /\ KsIdle /\ QuoterIdle

NextPoller == PFetch

SpecPoller == InitPoller /\ [][NextPoller]_vars

\* ------------------------------------------------------------------------
\* _call alone: one venue call after another, each attempt with any outcome
\* ------------------------------------------------------------------------
MaxCalls == 2

callFrame == <<riskVars, ksVars, conn, st, orphan, hedger, pc, running, snapshot,
               quote, raw_orders, iters, filledSince, _policy, hedgedAt,
               fillsApplied, bus, qargs, poller, feed, peer, twap>>

VCall ==
    /\ vcall.pc \in {"idle", "returned", "raised"}
    /\ vcall.calls < MaxCalls
    /\ vcall' = call_begin(vcall)
    /\ UNCHANGED callFrame

VAttempt ==
    /\ vcall.pc = "attempt"
    /\ \E outcome \in Outcomes : vcall' = attempt(vcall, outcome)
    /\ UNCHANGED callFrame

InitCall ==
    /\ RiskIdle
    /\ KsIdle
    /\ LoopIdle
    /\ poller = PollerInit
    /\ vcall \in {CallInit(tenacity) : tenacity \in BOOLEAN}
    /\ feed = FeedInit
    /\ peer = PeerInit
    /\ twap = TwapIdle

NextCall == VCall \/ VAttempt

SpecCall == InitCall /\ [][NextCall]_vars

\* ------------------------------------------------------------------------
\* KucoinFeed.run alone: connections that succeed or fail, sessions that
\* receive payloads of every kind or break, and stop()
\* ------------------------------------------------------------------------
MaxFailures == 7
MaxMessages == 2

Payloads ==
    {Payload(FALSE, FALSE, "", "", "")}
    \cup {Payload(TRUE, FALSE, "", "", "")}
    \cup {Payload(TRUE, TRUE, type, "", "") : type \in {"welcome", "ping", "error"}}
    \cup {Payload(TRUE, TRUE, "message", topic, data) :
            topic \in {"ticker", "match", "null"},
            data \in {"valid", "missing", "bad_number", "not_object"}}

feedFrame == <<riskVars, ksVars, conn, st, orphan, hedger, pc, running, snapshot,
               quote, raw_orders, iters, filledSince, _policy, hedgedAt,
               fillsApplied, bus, qargs, poller, vcall, peer, twap>>

FRun ==
    /\ feed.pc = "idle"
    /\ feed' = feed_run(feed)
    /\ UNCHANGED feedFrame

\* _stream up to the receive loop: token, connection, subscription
FConnect ==
    /\ feed.pc = "connect"
    /\ feed.running
    /\ feed' = [feed EXCEPT !.pc = "session"]
    /\ UNCHANGED feedFrame

FConnectFails ==
    /\ feed.pc = "connect"
    /\ feed.running
    /\ Len(feed.slept) < MaxFailures
    /\ feed' = feed_failure(feed)
    /\ UNCHANGED feedFrame

\* a payload arrives; one that was awaited when stop() came is still handled
FReceive ==
    /\ feed.pc = "session"
    /\ feed.received < MaxMessages
    /\ Len(feed.slept) < MaxFailures
    /\ \E raw \in Payloads : feed' = feed_receive(feed, raw)
    /\ UNCHANGED feedFrame

\* ws.recv() raises: the connection was closed
FSessionBreaks ==
    /\ feed.pc = "session"
    /\ Len(feed.slept) < MaxFailures
    /\ feed' = feed_failure(feed)
    /\ UNCHANGED feedFrame

FBackoffEnds ==
    /\ feed.pc = "backoff"
    /\ feed' = feed_slept(feed)
    /\ UNCHANGED feedFrame

FStop ==
    /\ feed.running
    /\ feed' = [feed EXCEPT !.running = FALSE]
    /\ UNCHANGED feedFrame

\* after stop(): the receive loop and then the loop of run() end
FReturns ==
    /\ feed.pc \in {"connect", "session"}
    /\ ~feed.running
    /\ feed' = [feed EXCEPT !.pc = "done",
                            !.backoff = IF feed.pc = "session" THEN 1 ELSE @]
    /\ UNCHANGED feedFrame

InitFeed == RiskIdle /\ KsIdle /\ QuoterIdle

NextFeed ==
    \/ FRun
    \/ FConnect
    \/ FConnectFails
    \/ FReceive
    \/ FSessionBreaks
    \/ FBackoffEnds
    \/ FStop
    \/ FReturns

SpecFeed == InitFeed /\ [][NextFeed]_vars

\* ------------------------------------------------------------------------
\* Two quoters on one connector: the venue's fills of the orders of both
\* symbols enter the connector's one queue, and the _drain_fills of either
\* quoter task polls it.
\* ------------------------------------------------------------------------
MaxSharedFills == 3
SharedPrices == {2, 3}
SharedSizes == {1, 2}

sharedFrame == <<now, lastCall, ret, peakSeen, ksVars, orphan, hedger, pc, running,
                 snapshot, quote, raw_orders, iters, filledSince, _policy, hedgedAt,
                 bus, qargs, poller, vcall, feed, twap>>

\* the fill producer queues a fill of an order of either quoter
SVenueFill ==
    /\ Len(fillsApplied) + Len(peer.applied) + Len(conn.fills) < MaxSharedFills
    /\ \E symbol \in {QSymbol, PeerSymbol} : \E side \in Side :
       \E price \in SharedPrices : \E size \in SharedSizes :
          conn' = [conn EXCEPT
                     !.fills = Append(@, Fill(0, symbol, side, price, size, 0))]
    /\ UNCHANGED <<risk, st, fillsApplied, peer, sharedFrame>>

\* one turn of the loop in _drain_fills of the quoter of QSymbol
SDrainFill ==
    /\ conn.fills # <<>>
    /\ \E w \in {DrainLoop(World(conn, risk, st, orphan), snapshot[1], 1)} :
          /\ conn' = w.conn
          /\ risk' = w.risk
          /\ st' = w.st
    /\ fillsApplied' = Append(fillsApplied, Head(conn.fills))
    /\ UNCHANGED <<peer, sharedFrame>>

\* ... and of the quoter of PeerSymbol, on its own SymbolState
SPeerDrainFill ==
    /\ conn.fills # <<>>
    /\ \E w \in {DrainLoop(World(conn, risk, peer.st, orphan), snapshot[1], 1)} :
          /\ conn' = w.conn
          /\ risk' = w.risk
          /\ peer' = [st |-> w.st, applied |-> Append(peer.applied, Head(conn.fills))]
    /\ UNCHANGED <<st, fillsApplied, sharedFrame>>

NextShared == SVenueFill \/ SDrainFill \/ SPeerDrainFill

SpecShared == InitFills /\ [][NextShared]_vars

\* ------------------------------------------------------------------------
\* A hedge slice by slice: the quoter of QSymbol calls maybe_hedge, whose
\* slices each wait for the venue and for the TWAP interval, while the
\* quoter of PeerSymbol pushes the mids of its own snapshots to the shared
\* RiskLimits.
\* ------------------------------------------------------------------------
MaxPeerSteps == 2
TwapInventories == {-2, 1, 2}
TwapPolicies ==
    {[enabled |-> TRUE, threshold |-> 1, max_notional |-> mn,
      ratio_num |-> 1, ratio_den |-> 1, cooldown_seconds |-> 30] : mn \in {3, 12}}
PeerMids == {3, 6}

twapFrame == <<lastCall, ret, peakSeen, ksVars, orphan, running, quote, raw_orders,
               filledSince, fillsApplied, _policy, bus, qargs, poller, vcall, feed,
               snapshot, now, hedgedAt>>

\* maybe_hedge is called (the quoter has just seen risk not halted): it
\* returns the inventory at once, or submits its first slice, no other task
\* running before that order is on its way to the venue
TMaybeHedge ==
    /\ pc = "hedge"
    /\ ~halted(risk)
    /\ \E sz \in HedgeSizes :
        \E plan \in {hedge_plan(hedger, _policy, snapshot[1], st.inventory,
                                sz[1], sz[2], now)} :
          /\ hedger' = [hedger EXCEPT !.last_notional = 0]
          /\ IF plan.idle
             THEN /\ twap' = TwapIdle
                  /\ risk' = update_inventory(risk, QSymbol, st.inventory)
                  /\ pc' = "done"
                  /\ conn' = conn
                  /\ iters' = iters
             ELSE /\ twap' = twap_slice(twap_begin(conn, plan), conn)
                  /\ risk' = risk
                  /\ pc' = "slices"
                  /\ conn' = twap'.acc[1].conn
                  /\ iters' = iters + 1
    /\ UNCHANGED <<st, peer, twapFrame>>

\* after asyncio.sleep(interval), the next slice: place_order, process_cross
\* and the fills of the order
TSlice ==
    /\ pc = "slices"
    /\ twap.left > 0
    /\ twap' = twap_slice(twap, conn)
    /\ conn' = twap'.acc[1].conn
    /\ iters' = iters + 1
    /\ UNCHANGED <<risk, st, hedger, pc, peer, twapFrame>>

\* maybe_hedge returns; state.inventory = hedged_inventory; update_inventory
TReturn ==
    /\ pc = "slices"
    /\ twap.left = 0
    /\ LET acc == twap.acc[1]
           plan == twap.plan[1]
           hedged_inventory == plan.inventory + acc.executed_delta
       IN  /\ hedger' = [last_timestamp |-> IF Abs(acc.executed_delta) > 0
                                            THEN plan.mono ELSE hedger.last_timestamp,
                         last_notional |-> acc.last_notional]
           /\ st' = [st EXCEPT !.inventory = hedged_inventory]
           /\ risk' = update_inventory(risk, QSymbol, hedged_inventory)
    /\ twap' = [twap EXCEPT !.acc = None]
    /\ pc' = "done"
    /\ UNCHANGED <<conn, peer, iters, twapFrame>>

\* the quoter of PeerSymbol begins an iteration: risk.update_mid of its symbol
TPeerUpdateMid ==
    /\ peer.steps < MaxPeerSteps
    /\ \E mid \in PeerMids : risk' = update_mid(risk, PeerSymbol, mid)
    /\ peer' = [peer EXCEPT !.steps = @ + 1]
    /\ UNCHANGED <<conn, st, hedger, pc, twap, iters, twapFrame>>

\* the quoter of QSymbol holds an inventory and has pushed the mid of its
\* snapshot to risk; the quoter of PeerSymbol holds one unit at a mid of 1;
\* risk is not halted
InitTwap ==
    /\ st \in {[SymbolStateInit EXCEPT !.inventory = inv] : inv \in TwapInventories}
    /\ snapshot \in {<<snap>> : snap \in Snapshots}
    /\ risk = [RiskInit EXCEPT
                 !.inventory = [s \in Symbols |-> IF s = QSymbol THEN st.inventory ELSE 1],
                 !.mid_prices = [s \in Symbols |->
                                   IF s = QSymbol THEN Mid(snapshot[1]) ELSE 1]]
    /\ TotalNotional(risk) <= max_inventory_notional
    /\ now = 0
    /\ lastCall = [op |-> "init", symbol |-> "A"]
    /\ ret = "none"
    /\ peakSeen = 0
    /\ KsIdle
    /\ conn \in {ConnInit(TRUE), ConnInit(FALSE)}
    /\ orphan = <<>>
    /\ hedger = HedgerInit
    /\ pc = "hedge"
    /\ running = TRUE
    /\ quote = None
    /\ raw_orders = <<>>
    /\ iters = 0
    /\ filledSince = {}
    /\ _policy \in TwapPolicies
    /\ hedgedAt = None
    /\ fillsApplied = <<>>
    /\ bus = EventBusInit
    /\ qargs = None
    /\ poller = PollerInit
    /\ vcall = CallIdle
    /\ feed = FeedInit
    /\ peer = [st |-> [SymbolStateInit EXCEPT !.inventory = 1], applied |-> <<>>,
               steps |-> 0]
    /\ twap = TwapIdle

NextTwap == TMaybeHedge \/ TSlice \/ TReturn \/ TPeerUpdateMid

SpecTwap == InitTwap /\ [][NextTwap]_vars

\* ------------------------------------------------------------------------
\* The cash flow of the fill accounting: fills of any side, price and size
\* are applied one after the other to a flat SymbolState.  Prices are in
\* units of 1/2520 (2520 is divisible by every inventory the bounds allow),
\* so that every average cost the code computes is a whole number.
\* ------------------------------------------------------------------------
MaxCashFills == 3
CashPrices == {5040, 7560, 15120}
CashSnapshots == {Snapshot(QSymbol, 5040, 7560), Snapshot(QSymbol, 15120, 15120)}

\* the venue reports a fill
AVenueFill ==
    /\ conn.fills = <<>>
    /\ Len(fillsApplied) < MaxCashFills
    /\ \E side \in Side : \E price \in CashPrices : \E size \in FillSizes :
          conn' = [conn EXCEPT
                     !.fills = Append(@, Fill(0, QSymbol, side, price, size, 0))]
    /\ UNCHANGED <<risk, st, fillsApplied, fillsFrame>>

\* one turn of the loop in _drain_fills
ADrainFill ==
    /\ conn.fills # <<>>
    /\ \E w \in {DrainLoop(World(conn, risk, st, orphan), snapshot[1], 1)} :
          /\ conn' = w.conn
          /\ risk' = w.risk
          /\ st' = w.st
    /\ fillsApplied' = Append(fillsApplied, Head(conn.fills))
    /\ UNCHANGED fillsFrame

InitCash ==
    /\ RiskIdle
    /\ KsIdle
    /\ conn = ConnInit(FALSE)
    /\ st = SymbolStateInit
    /\ orphan = <<>>
    /\ hedger = HedgerInit
    /\ pc = "drain"
    /\ running = TRUE
    /\ snapshot \in {<<snap>> : snap \in CashSnapshots}
    /\ quote = None
    /\ raw_orders = <<>>
    /\ iters = 0
    /\ filledSince = {}
    /\ _policy = HedgePolicy
    /\ hedgedAt = None
    /\ fillsApplied = <<>>
    /\ bus = EventBusInit
    /\ qargs = None
    /\ IoIdle

NextCash == AVenueFill \/ ADrainFill

SpecCash == InitCash /\ [][NextCash]_vars

\* ------------------------------------------------------------------------
\* Properties of KillSwitch
\* ------------------------------------------------------------------------
\* C3: with threshold N and no reset() in between, the callback is invoked
\* exactly once, during the N-th record_error; the first N-1 calls do not
\* invoke it and every call after the N-th changes nothing.
C3_FiresOnceOnNth ==
    /\ [](/\ Len(ksFired) <= 1
          /\ \A i \in DOMAIN ksFired : ksFired[i].call = ks.threshold
          /\ (ksCalls < ks.threshold => ksFired = <<>>)
          /\ (ksCalls >= ks.threshold => Len(ksFired) = 1))
    /\ [][(ksCalls' = ksCalls + 1 /\ ksCalls' > ks.threshold)
            => (ks' = ks /\ ksFired' = ksFired /\ ksPc' = ksPc)]_vars

\* C3 witness: threshold 2, four record_error calls made, one callback, and it
\* was made by the second call.
C3_Witness ==
    /\ ks.threshold = 2
    /\ ksCalls = 4
    /\ Len(ksFired) = 1
    /\ ksFired[1].call = 2
    /\ ks.lock = NoHolder
    /\ ksResets = 1

\* ------------------------------------------------------------------------
\* Properties of RiskLimits
\* ------------------------------------------------------------------------
InventoryNotionalOf(s) == Abs(risk.inventory[s] * risk.mid_prices[s])

\* C1: once RiskLimits is halted, every later step keeps halted_reason at the
\* value the first halt gave it, and every check_order made returns deny.
C1_HaltIsOneWay ==
    [][halted(risk) =>
        /\ risk'.halted_reason = risk.halted_reason
        /\ (lastCall'.op = "check_order" => ret' = "deny")]_vars

\* C1 witness: halted on inventory notional, the notional has since come back
\* under the cap, and a check_order has just been denied.
C1_Witness ==
    /\ lastCall.op = "check_order"
    /\ ret = "deny"
    /\ risk.halted_reason # None
    /\ risk.halted_reason[1] = "inventory notional"
    /\ TotalNotional(risk) <= max_inventory_notional
    /\ Abs(risk.inventory[lastCall.symbol] + SignedSize(lastCall.order))
            <= limits[lastCall.symbol].max_position

\* C6: check_order denies every order whose signed size (BUY +, SELL -) added to
\* the symbol's inventory exceeds max_position in magnitude.
C6_PositionLimitDenies ==
    (/\ lastCall.op = "check_order"
     /\ Abs(risk.inventory[lastCall.symbol] + SignedSize(lastCall.order))
            > limits[lastCall.symbol].max_position)
        => ret = "deny"

\* C6 witness: a SELL denied on a non-halted RiskLimits for position alone,
\* after update_inventory or fills made the symbol short.
C6_Witness ==
    /\ lastCall.op = "check_order"
    /\ ret = "deny"
    /\ ~halted(risk)
    /\ lastCall.order.side = SELL
    /\ risk.inventory[lastCall.symbol] < 0
    /\ Abs(lastCall.order.price * lastCall.order.size)
            <= limits[lastCall.symbol].max_order_notional
    /\ Abs(risk.inventory[lastCall.symbol] + SignedSize(lastCall.order))
            > limits[lastCall.symbol].max_position

\* C7: a record_fill on a non-halted RiskLimits that leaves the running drawdown
\* (largest realized PnL ever held minus the current one) above max_drawdown
\* halts with the reason that names this drawdown.
C7_DrawdownHalts ==
    [][(/\ lastCall'.op = "record_fill"
        /\ ~halted(risk)
        /\ peakSeen' - risk'.realized_pnl > max_drawdown)
        => risk'.halted_reason = <<"drawdown", peakSeen' - risk'.realized_pnl>>]_vars

\* C7 witness: PnL went up to 4, then down by 3 to 1 (the +20 / -15 of the
\* scenario in units of 5), with cap 2: halted on drawdown 3.
C7_Witness ==
    /\ lastCall.op = "record_fill"
    /\ peakSeen = 4
    /\ risk.realized_pnl = 1
    /\ risk.halted_reason = <<"drawdown", 3>>

\* C8: after update_mid, update_inventory or record_fill, a total inventory
\* notional (sum over symbols of |inventory x mid|) above max_inventory_notional
\* means risk is halted.
C8_InventoryNotionalHalts ==
    (/\ lastCall.op \in {"update_mid", "update_inventory", "record_fill"}
     /\ SumOver(Symbols, [s \in Symbols |-> InventoryNotionalOf(s)])
            > max_inventory_notional)
        => risk.halted_reason # None

\* C8 witness: update_inventory pushed the two-symbol sum over the cap while
\* each symbol alone is under it, and the halt names the notional.
C8_Witness ==
    /\ lastCall.op = "update_inventory"
    /\ \A s \in Symbols : InventoryNotionalOf(s) <= max_inventory_notional
    /\ SumOver(Symbols, [s \in Symbols |-> InventoryNotionalOf(s)])
            > max_inventory_notional
    /\ risk.halted_reason # None
    /\ risk.halted_reason[1] = "inventory notional"

\* cancels of symbol s recorded in r within the trailing window at time t
CancelsInWindow(r, s, t) ==
    Cardinality({i \in DOMAIN r.cancel_events[s] :
                    t - r.cancel_events[s][i] <= CancelWindow})

RateReached(r, s, t) ==
    /\ limits[s].max_cancels_per_minute # None
    /\ CancelsInWindow(r, s, t) >= limits[s].max_cancels_per_minute[1]

\* C9 as stated: a check_order for a symbol whose cancels within the trailing
\* 60 s reach max_cancels_per_minute returns deny and leaves risk halted.
C9_AsStated ==
    [][(lastCall'.op = "check_order" /\ RateReached(risk, lastCall'.symbol, now))
        => (ret' = "deny" /\ halted(risk'))]_vars

\* C9 amended: such a check_order always returns deny; risk is halted when it
\* returns provided the order passes the checks made before the cancel-rate
\* check (projected position, order notional, open-order count and exposure).
C9_RateDeniesAndHaltsWhenReached ==
    [][(lastCall'.op = "check_order" /\ RateReached(risk, lastCall'.symbol, now))
        => /\ ret' = "deny"
           /\ (/\ Abs(risk.inventory[lastCall'.symbol] + SignedSize(lastCall'.order))
                    <= limits[lastCall'.symbol].max_position
               /\ Abs(lastCall'.order.price * lastCall'.order.size)
                    <= limits[lastCall'.symbol].max_order_notional
               /\ _can_add_order(risk, lastCall'.symbol,
                                 Abs(lastCall'.order.price * lastCall'.order.size)))
              => halted(risk')]_vars

\* C9 witness: the cancel-rate check itself halted, with both cancels exactly
\* 60 s old when check_order ran.
C9_Witness ==
    /\ lastCall.op = "check_order"
    /\ ret = "deny"
    /\ risk.halted_reason = <<"cancel rate limit reached", lastCall.symbol>>
    /\ \A i \in DOMAIN risk.cancel_events[lastCall.symbol] :
            now - risk.cancel_events[lastCall.symbol][i] = CancelWindow

\* ------------------------------------------------------------------------
\* Claims about the quoter and the venue
\* ------------------------------------------------------------------------
\* the venue's open orders of the quoter's symbol
VenueOrders == list_orders(conn.orders, QSymbol)
VenueIds == OrderIds(VenueOrders)
RestingOn(side) ==
    {i \in DOMAIN VenueOrders : VenueOrders[i].side = side /\ VenueOrders[i].remaining > 0}

C4_OnePerSideAfterReconcile ==
    pc = "cross" =>
        /\ Cardinality(RestingOn(BUY)) <= 1
        /\ Cardinality(RestingOn(SELL)) <= 1

\* C5, as stated: right after a completed _replace_orders every id of the
\* quoter's open_orders map and every id risk tracks for the symbol is an open
\* order on the venue.
C5_AsStated ==
    pc = "cross" =>
        /\ DOMAIN st.open_orders \subseteq VenueIds
        /\ DOMAIN risk.open_orders[QSymbol] \subseteq VenueIds

\* C5, amended: right after a completed _replace_orders every id of the
\* quoter's open_orders map and every id risk tracks for the symbol is an open
\* order on the venue, unless the venue filled that order after the
\* reconciliation had listed the open orders.
C5_TrackedOpenOrFilledSinceListing ==
    pc = "cross" =>
        /\ DOMAIN st.open_orders \subseteq (VenueIds \cup filledSince)
        /\ DOMAIN risk.open_orders[QSymbol] \subseteq (VenueIds \cup filledSince)

\* a reconciliation has just completed with both quotes tracked, one of them
\* filled by the venue while the reconciliation was under way
C5_Witness ==
    /\ pc = "cross"
    /\ Cardinality(DOMAIN st.open_orders) = 2
    /\ DOMAIN risk.open_orders[QSymbol] = DOMAIN st.open_orders
    /\ Cardinality(DOMAIN st.open_orders \cap VenueIds) = 1
    /\ Cardinality(DOMAIN st.open_orders \cap filledSince) = 1

\* the venue lists exactly one BUY and one SELL of the symbol, each within
\* half a tick of the quote
MatchingBook(c, q) ==
    LET raw == list_orders(c.orders, QSymbol)
        buys == {i \in DOMAIN raw : raw[i].side = BUY}
        sells == {i \in DOMAIN raw : raw[i].side = SELL}
    IN  /\ Cardinality(buys) = 1
        /\ Cardinality(sells) = 1
        /\ \A i \in buys : 2 * Abs(raw[i].price - q.bid) <= tick_size
        /\ \A i \in sells : 2 * Abs(raw[i].price - q.ask) <= tick_size

\* C10: a reconciliation against a matching book places no order, cancels no
\* order and records no cancel event, and leaves the book matching, so that
\* any number of successive reconciliations with that quote do the same.
C10_ReconcileIdempotentOnMatchingBook ==
    [][(iters' = iters + 1 /\ pc = "recon" /\ MatchingBook(conn, quote[1]))
        => /\ conn' = conn
           /\ risk'.cancel_events = risk.cancel_events
           /\ orphan' = orphan
           /\ MatchingBook(conn', quote'[1])]_vars

\* two reconciliations have run against a matching book whose orders stand
\* exactly half a tick away from the quote, and nothing was placed
C10_Witness ==
    /\ pc = "recon"
    /\ iters = 2
    /\ MatchingBook(conn, quote[1])
    /\ \A i \in DOMAIN conn.orders :
        Abs(conn.orders[i].price - (IF conn.orders[i].side = BUY
                                    THEN quote[1].bid ELSE quote[1].ask)) = 1
    /\ conn.next_id = 3
    /\ risk.cancel_events[QSymbol] = <<>>

\* C11: an exception raised by a step of an iteration is caught: the handler
\* runs to the sleep that ends the iteration and the loop returns to its test;
\* the loop is left (for the finally block) only when stop() was called, risk
\* is halted or the kill switch is tripped.
C11_LoopSurvivesErrors ==
    [][/\ (pc = "except" /\ pc' # pc) => pc' = "sleep"
       /\ (pc = "sleep" /\ pc' # pc) => pc' = "top"
       /\ (pc # "finally" /\ pc' = "finally")
            => (~running \/ halted(risk) \/ tripped(ks))]_vars

\* the first iteration raised before a snapshot was read, the error was
\* reported to the kill switch, and the loop stands at its test again, free to
\* begin the next iteration
C11_Witness ==
    /\ pc = "top"
    /\ iters = 1
    /\ snapshot = None
    /\ ks.count = 1
    /\ running /\ ~halted(risk) /\ ~tripped(ks)

C13_TripLatchesLatestReason ==
    /\ [](ksFired # <<>> =>
            /\ tripped(ks)
            /\ ks.reason = <<ksFired[Len(ksFired)].reason>>
            /\ ksFired[Len(ksFired)].call = ks.threshold)
    /\ [][(ksCalls' = ksCalls + 1 /\ tripped(ks)) => ks'.reason = ks.reason]_vars
    /\ [][(tripped(ks) /\ ks'.reason # ks.reason) => ksResets' = ksResets + 1]_vars

\* threshold 2: the second call tripped the switch with reason "e2", a third
\* call with the other reason has been made since, and "e2" is still latched
C13_Witness ==
    /\ ks.threshold = 2
    /\ ksCalls = 3
    /\ ksFired = <<[call |-> 2, reason |-> "e2"]>>
    /\ ks.reason = <<"e2">>
    /\ ks.lock = NoHolder

\* C14: reset() leaves count 0 and tripped false whatever the state was, and
\* after a reset the callback fires on exactly the N-th record_error made
\* since: not before, and then once.
C14_ResetClearsCountAndLatch ==
    /\ [][ksResets' = ksResets + 1 => (ks'.count = 0 /\ ~tripped(ks'))]_vars
    /\ [](ksResets >= 1 =>
            /\ (ksCalls < ks.threshold => (ksFired = <<>> /\ ~tripped(ks)))
            /\ (ksCalls >= ks.threshold =>
                    (Len(ksFired) = 1 /\ ksFired[1].call = ks.threshold)))

\* threshold 3, reset twice: the callback has fired on the third call made
\* since the last reset
C14_Witness ==
    /\ ks.threshold = 3
    /\ ksResets = 2
    /\ ksCalls = 3
    /\ Len(ksFired) = 1
    /\ ksFired[1].call = 3
    /\ tripped(ks)

\* ------------------------------------------------------------------------
\* Properties of the hedger
\* ------------------------------------------------------------------------
\* a step that is one call of maybe_hedge with the inventory st.inventory
HedgeCall == pc = "hedge" /\ pc' = "args"

\* C15: with the policy disabled, maybe_hedge returns the inventory it was
\* given and leaves the connector as it was: no order placed, no fill polled.
C15_DisabledHedgerIsInert ==
    [][(HedgeCall /\ ~_policy.enabled)
        => (st'.inventory = st.inventory /\ conn' = conn)]_vars

\* a disabled hedger was called with inventory 3, well above its threshold,
\* and no order id has been issued
C15_Witness ==
    /\ ~_policy.enabled
    /\ _policy.threshold = 1 /\ _policy.ratio_num = 1 /\ _policy.ratio_den = 1
    /\ pc = "args" /\ iters = 2
    /\ st.inventory = 3
    /\ conn.next_id = 1

\* C16: a call made less than cooldown_seconds after a call that executed a
\* hedge places no order and returns the inventory it was given.
C16_NoHedgeWithinCooldown ==
    [][(/\ HedgeCall
        /\ hedgedAt # None
        /\ now - hedgedAt[1] < _policy.cooldown_seconds)
        => /\ st'.inventory = st.inventory
           /\ conn'.orders = conn.orders
           /\ conn'.next_id = conn.next_id]_vars

\* the first call sold the whole inventory with one order; the second call,
\* 29 s later and again with an inventory above the threshold, did nothing
C16_Witness ==
    /\ _policy.enabled
    /\ _policy.threshold = 1 /\ _policy.ratio_num = 1 /\ _policy.ratio_den = 1
    /\ pc = "args" /\ iters = 2
    /\ hedgedAt = <<now - 29>>
    /\ st.inventory = 3
    /\ conn.next_id = 2
    /\ hedger.last_notional = 0

\* C17, as stated: whenever maybe_hedge returns an inventory other than the one
\* it was given, the difference has the sign opposite to the given inventory.
C17_DeltaOpposesInventory ==
    [][(HedgeCall /\ st'.inventory # st.inventory)
        => (st'.inventory - st.inventory) * st.inventory < 0]_vars

\* C18: from a flat state with zero fees, a BUY of s at p1 followed by a SELL
\* of s at p2 leaves realised PnL (p2 - p1) * s, inventory 0 and cost basis 0;
\* a SELL of s at p1 followed by a BUY of s at p2 leaves (p1 - p2) * s, 0 and 0.
C18_RoundTripAccounting ==
    (/\ Len(fillsApplied) = 2
     /\ fillsApplied[1].side # fillsApplied[2].side
     /\ fillsApplied[1].size = fillsApplied[2].size)
    => LET open == fillsApplied[1]
           close == fillsApplied[2]
       IN  /\ st.pnl_realized =
                 (IF open.side = BUY THEN close.price - open.price
                  ELSE open.price - close.price) * open.size
           /\ st.inventory = 0
           /\ st.inventory_cost = 0

C18_Witness ==
    /\ Len(fillsApplied) = 2
    /\ fillsApplied[1].side = BUY /\ fillsApplied[1].price = 3
    /\ fillsApplied[2].side = SELL /\ fillsApplied[2].price = 6
    /\ fillsApplied[1].size = 2 /\ fillsApplied[2].size = 2
    /\ st.pnl_realized = 6
    /\ st.inventory = 0
    /\ st.inventory_cost = 0

\* C19: in every state of the quoter loop, after each applied fill and after
\* the inventory is reassigned from the hedger's result, a SymbolState with
\* inventory 0 has cost basis 0.
C19_FlatInventoryHasNoCost ==
    st.inventory = 0 => st.inventory_cost = 0

\* the open orders that a cross of the symbol at (bid, ask) is to fill
CrossingOrders(orders, symbol, bid, ask) ==
    {i \in DOMAIN orders :
        /\ orders[i].symbol = symbol
        /\ \/ orders[i].side = BUY /\ orders[i].price >= ask
           \/ orders[i].side = SELL /\ orders[i].price <= bid}

\* C20: process_cross(symbol, bid, ask) on the paper venue fills exactly the
\* open orders of the symbol that are BUY with price >= ask, at the lower of
\* the order's price and the ask, or SELL with price <= bid, at the higher of
\* the order's price and the bid: each for its full remaining size, with one
\* fill queued and the order removed; every other order stays as it was.
C20_CrossFillsExactlyCrossingOrders ==
    [][pc' = "crossed" =>
        LET symbol == snapshot'[1].symbol
            bid == snapshot'[1].bid
            ask == snapshot'[1].ask
            hit == CrossingOrders(conn.orders, symbol, bid, ask)
            queued == {k \in DOMAIN conn'.fills : k > Len(conn.fills)}
        IN  /\ conn'.orders = SelectSeq(conn.orders,
                    LAMBDA o : \A i \in hit : conn.orders[i].order_id # o.order_id)
            /\ Len(conn'.fills) = Len(conn.fills) + Cardinality(hit)
            /\ SubSeq(conn'.fills, 1, Len(conn.fills)) = conn.fills
            /\ \A i \in hit :
                 \E k \in queued :
                    LET o == conn.orders[i]
                        f == conn'.fills[k]
                    IN  /\ f.order_id = o.order_id
                        /\ f.symbol = o.symbol
                        /\ f.side = o.side
                        /\ f.size = o.remaining
                        /\ f.price = IF o.side = BUY
                                     THEN (IF o.price <= ask THEN o.price ELSE ask)
                                     ELSE (IF o.price >= bid THEN o.price ELSE bid)
    ]_vars

C20_Witness ==
    /\ pc = "crossed"
    /\ snapshot = <<Snapshot("A", 3, 3)>>
    /\ conn.fills = <<Fill(1, "A", BUY, 3, 2, 0)>>
    /\ conn.orders = <<OrderState(2, Order("B", BUY, 4, 2), 2),
                       OrderState(3, Order("A", SELL, 4, 2), 2)>>

\* C21: cancelling an order id that the venue does not hold (never placed,
\* already cancelled or already filled) raises no error and leaves the order
\* map and the fill queue as they were.
C21_CancelAbsentIsNoError ==
    [][(pc' = "cancelled" /\ lastCall'.order_id \notin OrderIds(conn.orders))
        => (ret' = "ok" /\ conn'.orders = conn.orders /\ conn'.fills = conn.fills)]_vars

\* C22: sweep() cancels on the venue every tracked order id whose timestamp
\* is more than timeout_seconds old and forgets it; an id tracked for
\* timeout_seconds or less is neither cancelled nor forgotten.
C22_SweepReapsExactlyTheStale ==
    [][pc' = "swept" =>
        LET old == {i \in DOMAIN orphan : now - orphan[i] > timeout_seconds}
        IN  /\ DOMAIN orphan' = (DOMAIN orphan) \ old
            /\ \A i \in DOMAIN orphan' : orphan'[i] = orphan[i]
            /\ OrderIds(conn'.orders) = OrderIds(conn.orders) \ old
    ]_vars

\* the numbers of the payloads of publisher p in a handler's history
RECURSIVE NumbersOf(_, _)
NumbersOf(history, p) ==
    IF history = <<>> THEN <<>>
    ELSE IF Head(history)[1] = p
         THEN <<Head(history)[2]>> \o NumbersOf(Tail(history), p)
         ELSE NumbersOf(Tail(history), p)

\* C23: publish returns only after every handler that was subscribed to the
\* topic when it was called has been called with the payload and is over;
\* and each handler receives the payloads of one publisher in publish order,
\* none of them before the handlers of the previous one are all over.
C23_PublishAwaitsAllSubscribers ==
    /\ [][\A p \in Publishers :
            (bus.calls[p].pc = "gather" /\ bus'.calls[p].pc = "idle")
            => /\ bus.calls[p].begun = Len(bus.calls[p].called)
               /\ bus.calls[p].over = 1..Len(bus.calls[p].called)]_vars
    /\ [][\A p \in Publishers :
            (bus.calls[p].pc = "idle" /\ bus'.calls[p].pc = "gather")
            => bus'.calls[p].called = bus.subscribers[bus'.calls[p].topic]]_vars
    /\ [](\A h \in Handlers : \A p \in Publishers :
            LET ns == NumbersOf(bus.received[h], p)
            IN  \A i, j \in DOMAIN ns : i < j => ns[i] <= ns[j])

C23_Witness ==
    /\ bus.subscribers["snapshot"] = <<"h1", "h2">>
    /\ bus.calls["feed1"] = NoCall(2)
    /\ bus.received["h1"] = <<<<"feed1", 1>>, <<"feed1", 2>>>>
    /\ bus.received["h2"] = <<<<"feed1", 1>>, <<"feed1", 2>>>>

\* C24: a cancel recorded more than 60 s before a check_order call does not
\* count: when fewer than max_cancels_per_minute cancels of the symbol lie
\* within the trailing 60 s, a check_order that passes the checks made before
\* the cancel-rate check returns allow and leaves risk not halted.
C24_OldCancelsFallOutOfWindow ==
    [][(/\ lastCall'.op = "check_order"
        /\ limits[lastCall'.symbol].max_cancels_per_minute # None
        /\ Cardinality({i \in DOMAIN risk.cancel_events[lastCall'.symbol] :
                now - risk.cancel_events[lastCall'.symbol][i] <= 60})
              < limits[lastCall'.symbol].max_cancels_per_minute[1]
        /\ ~halted(risk)
        /\ Abs(risk.inventory[lastCall'.symbol] + SignedSize(lastCall'.order))
              <= limits[lastCall'.symbol].max_position
        /\ Abs(lastCall'.order.price * lastCall'.order.size)
              <= limits[lastCall'.symbol].max_order_notional
        /\ _can_add_order(risk, lastCall'.symbol,
                          Abs(lastCall'.order.price * lastCall'.order.size)))
        => (ret' = "allow" /\ ~halted(risk'))]_vars

\* C24 witness: two cancels were on record, which is the limit, one of them
\* 61 s old: the check allowed the order.
C24_Witness ==
    /\ lastCall.op = "check_order"
    /\ lastCall.symbol = "A"
    /\ lastCall.found = <<0, 61>>
    /\ now = 61
    /\ ret = "allow"
    /\ ~halted(risk)
    /\ risk.cancel_events["A"] = <<61>>

\* the open orders risk tracks, of one symbol and of all
OpenCount(r, s) == Cardinality(DOMAIN r.open_orders[s])
OpenTotal(r) == Cardinality({<<s, i>> \in Symbols \X RiskOrderIds : i \in DOMAIN r.open_orders[s]})

\* C25: check_order denies every order for a symbol that has max_orders open
\* orders tracked in risk, and every order when the open orders tracked
\* across all symbols number max_open_orders.
C25_OpenOrderCountsDeny ==
    [][(/\ lastCall'.op = "check_order"
        /\ \/ OpenCount(risk, lastCall'.symbol) >= limits[lastCall'.symbol].max_orders
           \/ OpenTotal(risk) >= max_open_orders)
        => (ret' = "deny" /\ risk' = risk)]_vars

\* C25 witness: an order for B, which has one open order of the two it may
\* have, is denied because three are open in all; no other check denies it.
C25_Witness ==
    /\ lastCall.op = "check_order"
    /\ lastCall.symbol = "B"
    /\ ret = "deny"
    /\ ~halted(risk)
    /\ OpenCount(risk, "A") = 2
    /\ OpenCount(risk, "B") = 1
    /\ Abs(risk.inventory["B"] + SignedSize(lastCall.order)) <= limits["B"].max_position
    /\ Abs(lastCall.order.price * lastCall.order.size) <= limits["B"].max_order_notional
    /\ Abs(risk.inventory["B"] * risk.mid_prices["B"])
         + SumOver(DOMAIN risk.open_orders["B"], risk.open_orders["B"])
         + Abs(lastCall.order.price * lastCall.order.size)
           <= limits["B"].account_notional_cap

\* C26: every quote generate_quotes returns has ask >= bid and ask - bid at
\* least max(tick, min_spread), so bid < ask strictly
C26_QuotesWellOrdered ==
    (qargs # None /\ quote # None) =>
        /\ FLeq(quote[1].bid, quote[1].ask)
        /\ FLeq(FMax(qargs.tick_size, qargs.model.min_spread),
                FSub(quote[1].ask, quote[1].bid))
        /\ FLess(quote[1].bid, quote[1].ask)

\* the same call with another inventory
QuoteAt(inventory) ==
    generate_quotes(qargs.model, qargs.snapshot_mid, inventory, qargs.sigma,
                    qargs.feature, qargs.tick_size, qargs.min_tick_spread,
                    qargs.impact_lambda)

\* C27: with everything else fixed, the quote for inventory +1 has its bid
\* strictly below the bid for inventory -1 and its ask strictly below the
\* ask for inventory -1
C27_LongInventorySkewsDown ==
    (qargs # None /\ quote # None /\ qargs.inventory = 1) =>
        /\ FLess(quote[1].bid, QuoteAt(-1).bid)
        /\ FLess(quote[1].ask, QuoteAt(-1).ask)

\* C28: an order that reconciliation cancels is no longer tracked by the
\* orphan reaper once the step is over
C28_CancelledOrdersAreUntracked ==
    [][(pc = "replace_buy" \/ pc = "replace_sell") =>
        \A id \in (DOMAIN st.open_orders) \ (DOMAIN st'.open_orders) :
            ~(id \in DOMAIN orphan') ]_vars

\* C29: sweep cancels no order that is in the quoter's open_orders map
C29_SweepSparesOwnedOrders ==
    [][(pc = "sweep" /\ pc' = "sleep") =>
        \A id \in DOMAIN st.open_orders :
            id \in OrderIds(conn.orders) => id \in OrderIds(conn'.orders)]_vars

\* C30: a fill that is in the connector's queue when maybe_hedge is called
\* belongs to another order than the hedge order, and is still in the queue
\* for the quoter's fill accounting when maybe_hedge returns
C30_HedgerLeavesOtherFills ==
    [][(pc = "hedge" /\ pc' = "sweep") =>
        \A i \in DOMAIN conn.fills :
            \E j \in DOMAIN conn'.fills : conn'.fills[j] = conn.fills[i] ]_vars

C32_EachTradeEnqueuedOnce ==
    \A i, j \in DOMAIN poller.enqueued :
        i # j => poller.enqueued[i] # poller.enqueued[j]

\* C33: a call makes at most 5 attempts; every attempt but the last ended in a
\* network or rate-limit error; it returns on the first success, and raises
\* the error of its last attempt when that error is of another kind or the
\* attempt was the 5th (the first, where the module's own single-attempt
\* AsyncRetrying is in use).
C33_CallRetriesFiveTimes ==
    LET n == Len(vcall.outcomes)
        last == vcall.outcomes[n]
    IN  /\ vcall.attempts = n
        /\ n <= 5
        /\ \A i \in 1..(n - 1) : vcall.outcomes[i] \in Retried
        /\ vcall.pc = "attempt" =>
              (n < 5 /\ (n > 0 => (vcall.tenacity /\ last \in Retried)))
        /\ vcall.pc = "returned" => (n > 0 /\ last = "ok" /\ vcall.result = <<"ok">>)
        /\ vcall.pc = "raised" =>
              /\ n > 0
              /\ last # "ok"
              /\ (last \in Retried => n = IF vcall.tenacity THEN 5 ELSE 1)
              /\ vcall.result = <<last>>

\* four network or rate-limit errors, then a fifth: the call raised it
C33_Witness ==
    /\ vcall.tenacity
    /\ vcall.pc = "raised"
    /\ vcall.outcomes = <<"NetworkError", "RateLimitExceeded", "NetworkError",
                          "NetworkError", "RateLimitExceeded">>
    /\ vcall.result = <<"RateLimitExceeded">>

RECURSIVE Pow2(_)
Pow2(k) == IF k = 0 THEN 1 ELSE 2 * Pow2(k - 1)

Malformed(raw) ==
    \/ ~raw.json
    \/ ~raw.object
    \/ raw.type = "message" /\ (raw.topic = "null" \/ raw.data # "valid")

\* C35: receiving a malformed payload publishes nothing and leaves the
\* session connected
C35_MalformedPayloadsAreDropped ==
    [][(feed'.received = feed.received + 1 /\ Malformed(feed'.last[1]))
          => (feed'.published = feed.published /\ feed'.pc = "session")]_vars

\* C36: with two quoters on one connector, every fill that the accounting
\* of a quoter consumed carries the symbol of that quoter
C36_QuotersApplyOwnFills ==
    /\ \A i \in DOMAIN fillsApplied : fillsApplied[i].symbol = QSymbol
    /\ \A i \in DOMAIN peer.applied : peer.applied[i].symbol = PeerSymbol

\* the hedge made slice by slice ends as maybe_hedge computes it in one step
TwapAgreesWithMaybeHedge ==
    [][(pc = "slices" /\ pc' = "done") =>
        \E sz \in HedgeSizes :
            LET res == maybe_hedge(hedger, _policy, ConnInit(conn.paper), snapshot[1],
                                   st.inventory, sz[1], sz[2], now)
            IN  /\ res.inventory = st'.inventory
                /\ res.hedger = hedger'
                /\ res.conn = conn' ]_vars

\* C37: no order is placed on the venue while risk is halted
C37_NoOrdersAfterHalt ==
    [][conn'.next_id # conn.next_id => ~halted(risk)]_vars

\* C38: a call of maybe_hedge leaves an inventory whose magnitude is no
\* greater than that of the inventory it was called with
C38_HedgesAreReducing ==
    [][pc = "hedge" => Abs(st'.inventory) <= Abs(st.inventory)]_vars

\* the notional and the size of the fills of one side
RECURSIVE SideNotional(_, _)
SideNotional(fills, side) ==
    IF fills = <<>> THEN 0
    ELSE (IF Head(fills).side = side THEN Head(fills).price * Head(fills).size ELSE 0)
         + SideNotional(Tail(fills), side)

RECURSIVE SideSize(_, _)
SideSize(fills, side) ==
    IF fills = <<>> THEN 0
    ELSE (IF Head(fills).side = side THEN Head(fills).size ELSE 0)
         + SideSize(Tail(fills), side)

\* C39: with zero fees and a flat start, after the fills applied so far the
\* realised PnL minus the cost basis is the notional sold minus the notional
\* bought, and the inventory is the size bought minus the size sold
C39_FillsConserveCash ==
    /\ st.pnl_realized - st.inventory_cost =
          SideNotional(fillsApplied, SELL) - SideNotional(fillsApplied, BUY)
    /\ st.inventory = SideSize(fillsApplied, BUY) - SideSize(fillsApplied, SELL)

\* a long of 3 opened at two prices, then a SELL of 2 at a third: a partial
\* close at the average cost of 6720
C39_Witness ==
    /\ Len(fillsApplied) = 3
    /\ fillsApplied[1] = Fill(0, QSymbol, BUY, 5040, 1, 0)
    /\ fillsApplied[2] = Fill(0, QSymbol, BUY, 7560, 2, 0)
    /\ fillsApplied[3] = Fill(0, QSymbol, SELL, 15120, 2, 0)
    /\ st.inventory = 1
    /\ st.inventory_cost = 6720
    /\ st.pnl_realized = 16800

====
